---- MODULE Spec2Model ----
(***************************************************************************)
(* A model of lex-hook's dialog engine (src/src/index.ts): route, the slot *)
(* evaluators, DefaultDialogEventHandler.handle and LexResultFactory.      *)
(*                                                                         *)
(* Conventions.                                                            *)
(*  - A JavaScript string value is a tuple of one-character strings, so    *)
(*    that the date and currency checks can read it character by           *)
(*    character.  The JavaScript null of a slot value is the tuple Null.   *)
(*  - Names (slot names, intent names, prompt messages, attribute keys)    *)
(*    are only compared for equality and stay TLA+ strings.                *)
(*  - An optional property of an object (sessionAttributes,                *)
(*    recentIntentSummaryView, message, the config's hooks) that is null   *)
(*    or undefined is a field missing from the record: the code only       *)
(*    tests such properties for truthiness.                                *)
(***************************************************************************)
EXTENDS Integers, Sequences, FiniteSets, TLC

VARIABLES
    config,            \* DefaultDialogEventHandler.config
    slotEvaluatorMap,  \* DefaultDialogEventHandler.slotEvaluatorMap
    slotNameArray,     \* DefaultDialogEventHandler.slotNameArray
    lexEvent,          \* the turn handle works on (mutated in place)
    inbound,           \* the turn as it was received (history)
    pc,                \* position of the running call
    idx,               \* position of handle's for-loop in slotNameArray
    se,                \* the SlotEvaluationResult of the slot at idx
    result,            \* the LexResult the call returned
    log,               \* the calls made so far, in order (history)
    param,             \* the argument of a direct LexResultFactory call
    eventHandler,      \* the LexEventHandler given to route
    session            \* the exchanges of the conversation so far (history)

vars == <<config, slotEvaluatorMap, slotNameArray, lexEvent, inbound, pc, idx,
          se, result, log, param, eventHandler, session>>

---------------------------------------------------------------------------
(* Bounds of the model *)

MaxSlots == 2

MaxSummaries == 2

---------------------------------------------------------------------------
(* Strings *)

Null == <<"null">>

Digits == {"0", "1", "2", "3", "4", "5", "6", "7", "8", "9"}

DigitValue(c) ==
    CASE c = "0" -> 0 [] c = "1" -> 1 [] c = "2" -> 2 [] c = "3" -> 3
      [] c = "4" -> 4 [] c = "5" -> 5 [] c = "6" -> 6 [] c = "7" -> 7
      [] c = "8" -> 8 [] c = "9" -> 9

\* stands for NaN and for an Invalid Date: no number the model computes
NaN == -100000000

RECURSIVE DigitsToNat(_)
DigitsToNat(s) ==
    IF s = <<>> THEN 0
    ELSE 10 * DigitsToNat(SubSeq(s, 1, Len(s) - 1)) + DigitValue(s[Len(s)])

\* the unary plus of JavaScript on a string of decimal digits
ToNumber(s) ==
    IF s = <<>> THEN 0
    ELSE IF \A i \in 1..Len(s) : s[i] \in Digits THEN DigitsToNat(s)
    ELSE NaN

\* String.prototype.lastIndexOf, 0-based, -1 when c does not occur
LastIndexOf(s, c) ==
    LET hits == {i \in 1..Len(s) : s[i] = c}
    IN  IF hits = {} THEN -1
        ELSE (CHOOSE i \in hits : \A j \in hits : j <= i) - 1

\* a slot value is truthy when it is neither null nor the empty string
Truthy(v) == v # Null /\ v # <<>>

---------------------------------------------------------------------------
(* SlotValidationAssessment *)

INVALID == 1

VALID_SLOT == 2

VALID_RECENT_SLOT == 3

---------------------------------------------------------------------------
(* Util.isValidLexDate and the Date it constructs *)

\* day number of a civil date (ECMAScript MakeDay), days since 1970-01-01;
\* a day past the end of the month runs over into the next month
MakeDay(y, m, d) ==
    LET yy  == IF m <= 2 THEN y - 1 ELSE y
        era == yy \div 400
        yoe == yy - era * 400
        mp  == IF m > 2 THEN m - 3 ELSE m + 9
        doy == (153 * mp + 2) \div 5 + d - 1
        doe == yoe * 365 + yoe \div 4 - yoe \div 100 + doy
    IN  era * 146097 + doe - 719468

\* Date.prototype.getDate of a day number (ECMAScript DateFromTime)
DateFromDay(t) ==
    LET z   == t + 719468
        era == z \div 146097
        doe == z - era * 146097
        yoe == (doe - doe \div 1460 + doe \div 36524 - doe \div 146096) \div 365
        doy == doe - (365 * yoe + yoe \div 4 - yoe \div 100)
        mp  == (5 * doy + 2) \div 153
    IN  doy - (153 * mp + 2) \div 5 + 1

\* new Date(`${s}T00:00:00`): the day number of the local midnight it names
\* (the time value in days, for a process whose time zone is UTC), NaN for
\* an Invalid Date.  The date part of an ISO date-time reads YYYY-MM-DD or
\* YYYY-MM (the first day of the month), with a month of 01..12 and a day
\* of 01..31; a string of any other shape gives an Invalid Date.
NewDate(s) ==
    IF /\ Len(s) \in {7, 10}
       /\ s[5] = "-"
       /\ \A i \in {1, 2, 3, 4, 6, 7} : s[i] \in Digits
       /\ Len(s) = 10 => (s[8] = "-" /\ s[9] \in Digits /\ s[10] \in Digits)
    THEN LET y == DigitsToNat(SubSeq(s, 1, 4))
             m == DigitsToNat(SubSeq(s, 6, 7))
             d == IF Len(s) = 10 THEN DigitsToNat(SubSeq(s, 9, 10)) ELSE 1
         IN  IF m \in 1..12 /\ d \in 1..31 THEN MakeDay(y, m, d) ELSE NaN
    ELSE NaN

isValidLexDate(dateString) ==
    IF ~Truthy(dateString) THEN FALSE
    ELSE LET posn == LastIndexOf(dateString, "-")
         IN  IF posn < 0 THEN FALSE
             ELSE LET date == NewDate(dateString)
                  IN  /\ date # NaN
                      /\ date # 0
                      /\ DateFromDay(date)
                           = ToNumber(SubSeq(dateString, posn + 2, Len(dateString)))

---------------------------------------------------------------------------
(* StandardSlotEvaluators *)

\* mutant: the pattern is anchored at the end as well
CurrencyRegExpTestWholeString(v) ==
    LET s == IF v = Null THEN <<"n", "u", "l", "l">> ELSE v
    IN  \E i \in 0..1 : \E j \in 0..Len(s) :
          /\ i + j + 3 = Len(s)
          /\ \A k \in 1..i : s[k] \in Digits \ {"0"}
          /\ \A k \in (i + 1)..(i + j) : s[k] \in Digits
          /\ s[i + j + 1] = "."
          /\ s[i + j + 2] \in Digits
          /\ s[i + j + 3] \in Digits

\* the RegExp '^[1-9]?[0-9]*[.][0-9]{2}' of CurrencySlotEvaluator.isValid;
\* RegExp.prototype.test turns null into the string "null" first
CurrencyRegExpTest(v) ==
    LET s == IF v = Null THEN <<"n", "u", "l", "l">> ELSE v
    IN  \E i \in 0..1 : \E j \in 0..Len(s) :
          /\ i + j + 3 <= Len(s)
          /\ \A k \in 1..i : s[k] \in Digits \ {"0"}
          /\ \A k \in (i + 1)..(i + j) : s[k] \in Digits
          /\ s[i + j + 1] = "."
          /\ s[i + j + 2] \in Digits
          /\ s[i + j + 3] \in Digits

\* mutant: the last summary of the current intent is taken
getRecentIntentSummaryLast(ev) ==
    IF "recentIntentSummaryView" \notin DOMAIN ev THEN <<>>
    ELSE LET view == ev.recentIntentSummaryView
             hits == {i \in 1..Len(view) :
                        view[i].intentName = ev.currentIntent.name}
         IN  IF hits = {} THEN <<>>
             ELSE <<view[CHOOSE i \in hits : \A j \in hits : j <= i]>>

\* BaseSlotEvaluator.getRecentIntentSummary: the first summary of the current
\* intent, as a sequence of zero or one summaries
getRecentIntentSummary(ev) ==
    IF "recentIntentSummaryView" \notin DOMAIN ev THEN <<>>
    ELSE LET view == ev.recentIntentSummaryView
             hits == {i \in 1..Len(view) :
                        view[i].intentName = ev.currentIntent.name}
         IN  IF hits = {} THEN <<>>
             ELSE <<view[CHOOSE i \in hits : \A j \in hits : i <= j]>>

\* mutant: the value is read from the summary when there is one
getSlotValueFromSummary(slotEvaluator, ev) ==
    LET recentIntentSummary == getRecentIntentSummary(ev)
        recent == IF recentIntentSummary # <<>>
                  THEN recentIntentSummary[1].slots[slotEvaluator.slotName]
                  ELSE Null
        base == [value       |-> IF recentIntentSummary # <<>> THEN recent
                                 ELSE ev.currentIntent.slots[slotEvaluator.slotName],
                 details     |-> ev.currentIntent.slotDetails[slotEvaluator.slotName],
                 recentValue |-> recent]
    IN  IF recentIntentSummary # <<>>
        THEN base @@ [elicitedSlotName |-> recentIntentSummary[1].slotToElicit]
        ELSE base

\* BaseSlotEvaluator.getSlotValue
getSlotValue(slotEvaluator, ev) ==
    LET recentIntentSummary == getRecentIntentSummary(ev)
        base == [value       |-> ev.currentIntent.slots[slotEvaluator.slotName],
                 details     |-> ev.currentIntent.slotDetails[slotEvaluator.slotName],
                 recentValue |-> IF recentIntentSummary # <<>>
                                 THEN recentIntentSummary[1].slots[slotEvaluator.slotName]
                                 ELSE Null]
    IN  IF recentIntentSummary # <<>>
        THEN base @@ [elicitedSlotName |-> recentIntentSummary[1].slotToElicit]
        ELSE base

\* mutant: a summary of the current intent is enough, with or without a
\* value for the slot
BaseIsValidAnySummary(slotValue) ==
    IF "elicitedSlotName" \in DOMAIN slotValue THEN VALID_RECENT_SLOT ELSE INVALID

\* BaseSlotEvaluator.isValid
BaseIsValid(slotValue) ==
    IF slotValue.recentValue # Null THEN VALID_RECENT_SLOT ELSE INVALID

\* mutant: only null is rejected, the empty string passes
NotNullIsValidNullOnly(slotValue) ==
    LET sva == BaseIsValid(slotValue)
    IN  IF sva = INVALID
        THEN (IF slotValue.value # Null THEN VALID_SLOT ELSE INVALID)
        ELSE sva

\* NotNullSlotEvaluator.isValid
NotNullIsValid(slotValue) ==
    LET sva == BaseIsValid(slotValue)
    IN  IF sva = INVALID
        THEN (IF Truthy(slotValue.value) THEN VALID_SLOT ELSE INVALID)
        ELSE sva

\* mutant: a value that begins with a member of the set passes
SetMembershipIsValidByPrefix(set, slotValue) ==
    LET sva == BaseIsValid(slotValue)
        v   == slotValue.value
    IN  IF sva = INVALID
        THEN (IF \E member \in set :
                    Len(member) <= Len(v) /\ SubSeq(v, 1, Len(member)) = member
              THEN VALID_SLOT ELSE INVALID)
        ELSE sva

\* SetMembershipSlotEvaluator.isValid
SetMembershipIsValid(set, slotValue) ==
    LET sva == BaseIsValid(slotValue)
    IN  IF sva = INVALID
        THEN (IF slotValue.value \in set THEN VALID_SLOT ELSE INVALID)
        ELSE sva

\* mutant: the evaluator's own rule is tried before the base check
LexDateIsValidOwnRuleFirst(slotValue) ==
    IF isValidLexDate(slotValue.value) THEN VALID_SLOT ELSE BaseIsValid(slotValue)

\* LexDateSlotEvaluator.isValid
LexDateIsValid(slotValue) ==
    LET sva == BaseIsValid(slotValue)
    IN  IF sva = INVALID
        THEN (IF isValidLexDate(slotValue.value) THEN VALID_SLOT ELSE INVALID)
        ELSE sva

\* CurrencySlotEvaluator.isValid
CurrencyIsValid(slotValue) ==
    LET sva == BaseIsValid(slotValue)
    IN  IF sva = INVALID
        THEN (IF CurrencyRegExpTest(slotValue.value) THEN VALID_SLOT ELSE INVALID)
        ELSE sva

\* slotEvaluator.isValid, dispatched on the evaluator's class
isValid(slotEvaluator, slotValue) ==
    CASE slotEvaluator.kind = "NotNull"       -> NotNullIsValid(slotValue)
      [] slotEvaluator.kind = "SetMembership" ->
             SetMembershipIsValid(slotEvaluator.set, slotValue)
      [] slotEvaluator.kind = "LexDate"       -> LexDateIsValid(slotValue)
      [] slotEvaluator.kind = "Currency"      -> CurrencyIsValid(slotValue)

\* new SlotEvaluationResult(v, s, n): newSlots is set only when n is given
\* (<<>> stands for an n that is left out)
SlotEvaluationResult(v, s, n) ==
    IF n # <<>>
    THEN [valid |-> v, slotValue |-> s, newSlots |-> n]
    ELSE [valid |-> v, slotValue |-> s]

\* slotEvaluator.evaluate: BaseSlotEvaluator.evaluate for the bundled
\* evaluators, which gives no newSlots; a client's evaluator of the kind
\* "Replacing" gives its own assessment and a replacement mapping
evaluate(slotEvaluator, ev) ==
    LET slotValue == getSlotValue(slotEvaluator, ev)
    IN  IF slotEvaluator.kind = "Replacing"
        THEN SlotEvaluationResult(slotEvaluator.valid, slotValue,
                                  slotEvaluator.newSlots)
        ELSE SlotEvaluationResult(isValid(slotEvaluator, slotValue), slotValue, <<>>)

\* new NotNullSlotEvaluator(sn, pm) and its sibling constructors
NotNullSlotEvaluator(sn, pm) ==
    [kind |-> "NotNull", slotName |-> sn, promptMessage |-> pm]

SetMembershipSlotEvaluator(sn, pm, s) ==
    [kind |-> "SetMembership", slotName |-> sn, promptMessage |-> pm, set |-> s]

LexDateSlotEvaluator(sn, pm) ==
    [kind |-> "LexDate", slotName |-> sn, promptMessage |-> pm]

CurrencySlotEvaluator(sn, pm) ==
    [kind |-> "Currency", slotName |-> sn, promptMessage |-> pm]

\* a client's own SlotEvaluator whose evaluate returns the assessment va and
\* the replacement mapping n for the slots
ReplacingSlotEvaluator(sn, pm, va, n) ==
    [kind |-> "Replacing", slotName |-> sn, promptMessage |-> pm,
     valid |-> va, newSlots |-> n]

\* a client's own SlotEvaluator whose evaluate throws, in evaluate itself or
\* in the isValid it calls
ThrowingSlotEvaluator(sn, pm, where) ==
    [kind |-> "Custom", slotName |-> sn, promptMessage |-> pm, throwsIn |-> where]

\* slotEvaluator.evaluate(ev) throws: a client's evaluator that throws, or
\* getSlotValue reading a slot of slotDetails when the turn has none
Throws(slotEvaluator, ev) ==
    \/ slotEvaluator.kind = "Custom"
    \/ "slotDetails" \notin DOMAIN ev.currentIntent

---------------------------------------------------------------------------
(* LexResultFactory *)

\* the property f of the object r when it is set, as a record to merge
Pick(r, f) == IF f \in DOMAIN r THEN (f :> r[f]) ELSE <<>>

\* mutant: session attributes that are not given default to an empty object
maybeAddToResultDefaulting(lexResult, p) ==
    LET withAttrs == IF "sessionAttributes" \in DOMAIN p
                     THEN lexResult @@ [sessionAttributes |-> p.sessionAttributes]
                     ELSE lexResult @@ [sessionAttributes |-> <<>>]
    IN  IF "recentIntentSummaryView" \in DOMAIN p
        THEN withAttrs @@ [recentIntentSummaryView |-> p.recentIntentSummaryView]
        ELSE withAttrs

\* LexResultFactory.maybeAddToResult
maybeAddToResult(lexResult, p) ==
    LET withAttrs == IF "sessionAttributes" \in DOMAIN p
                     THEN lexResult @@ [sessionAttributes |-> p.sessionAttributes]
                     ELSE lexResult
    IN  IF "recentIntentSummaryView" \in DOMAIN p
        THEN withAttrs @@ [recentIntentSummaryView |-> p.recentIntentSummaryView]
        ELSE withAttrs

\* LexResultFactory.dialogActionClose
dialogActionClose(p) ==
    LET dac == [type |-> "Close", fulfillmentState |-> p.fulfillmentState]
               @@ Pick(p, "message")
    IN  maybeAddToResult([dialogAction |-> dac], p)

\* LexResultFactory.dialogActionDelegate
dialogActionDelegate(p) ==
    LET dad == [type |-> "Delegate"] @@ Pick(p, "slots")
    IN  maybeAddToResult([dialogAction |-> dad], p)

\* LexResultFactory.dialogActionElicitSlot
dialogActionElicitSlot(p) ==
    LET daes == [type         |-> "ElicitSlot",
                 intentName   |-> p.intentName,
                 slots        |-> p.slots,
                 slotToElicit |-> p.slotToElicit]
                @@ Pick(p, "message")
    IN  maybeAddToResult([dialogAction |-> daes], p)

---------------------------------------------------------------------------
(* DefaultDialogEventHandler *)

\* mutant: the response takes the slots the evaluator proposed, when it
\* proposed any
defaultInvalidSlotResponderWithNewSlots(ev, evaluator, slotEvalResult) ==
    dialogActionElicitSlot(
        [intentName   |-> ev.currentIntent.name,
         slotToElicit |-> evaluator.slotName,
         slots        |-> IF "newSlots" \in DOMAIN slotEvalResult
                          THEN slotEvalResult.newSlots
                          ELSE ev.currentIntent.slots,
         message      |-> [content     |-> evaluator.promptMessage,
                           contentType |-> "PlainText"]]
        @@ Pick(ev, "sessionAttributes"))

\* mutant: the turn's summaries are handed on as well
defaultInvalidSlotResponderWithView(ev, evaluator, slotEvalResult) ==
    dialogActionElicitSlot(
        [intentName   |-> ev.currentIntent.name,
         slotToElicit |-> evaluator.slotName,
         slots        |-> ev.currentIntent.slots,
         message      |-> [content     |-> evaluator.promptMessage,
                           contentType |-> "PlainText"]]
        @@ Pick(ev, "sessionAttributes") @@ Pick(ev, "recentIntentSummaryView"))

\* DefaultDialogEventHandler.defaultInvalidSlotResponder
defaultInvalidSlotResponder(ev, evaluator, slotEvalResult) ==
    dialogActionElicitSlot(
        [intentName   |-> ev.currentIntent.name,
         slotToElicit |-> evaluator.slotName,
         slots        |-> ev.currentIntent.slots,
         message      |-> [content     |-> evaluator.promptMessage,
                           contentType |-> "PlainText"]]
        @@ Pick(ev, "sessionAttributes"))

\* DefaultDialogEventHandler.defaultAllSlotsValidResponder
defaultAllSlotsValidResponder(ev) ==
    dialogActionDelegate(
        [slots |-> ev.currentIntent.slots] @@ Pick(ev, "sessionAttributes"))

\* a client's config.invalidSlotResponder: its result is the client's own and
\* records what the responder was given
clientInvalidSlotResponder(ev, evaluator, slotEvalResult) ==
    [dialogAction   |-> [type |-> "ClientInvalidSlot"],
     slotEvaluator  |-> evaluator,
     slotEvalResult |-> slotEvalResult,
     lexEvent       |-> ev]

\* a client's config.allSlotsValidResponder
clientAllSlotsValidResponder(ev) ==
    [dialogAction |-> [type |-> "ClientAllSlotsValid"],
     lexEvent     |-> ev]

\* mutant: an evaluator stored under a slot name is not overwritten
RECURSIVE MapOfFirstWins(_)
MapOfFirstWins(slotEvaluatorArray) ==
    IF slotEvaluatorArray = <<>> THEN <<>>
    ELSE LET n    == Len(slotEvaluatorArray)
             last == slotEvaluatorArray[n]
             rest == MapOfFirstWins(SubSeq(slotEvaluatorArray, 1, n - 1))
         IN  rest @@ (last.slotName :> last)

\* the constructor's forEach: the map after the evaluators of the array were
\* stored under their slot names one after the other
RECURSIVE MapOf(_)
MapOf(slotEvaluatorArray) ==
    IF slotEvaluatorArray = <<>> THEN <<>>
    ELSE LET n    == Len(slotEvaluatorArray)
             last == slotEvaluatorArray[n]
             rest == MapOf(SubSeq(slotEvaluatorArray, 1, n - 1))
         IN  (last.slotName :> last) @@ rest

\* mutant: the slot names put in front of one another (unshift for push)
NamesOfReversed(slotEvaluatorArray) ==
    [i \in 1..Len(slotEvaluatorArray) |->
        slotEvaluatorArray[Len(slotEvaluatorArray) + 1 - i].slotName]

\* the constructor's forEach: the slot names pushed one after the other
NamesOf(slotEvaluatorArray) ==
    [i \in 1..Len(slotEvaluatorArray) |-> slotEvaluatorArray[i].slotName]

\* mutant: an evaluator that was found is replaced in the map by a
\* non-absence evaluator
getSlotEvaluatorReplacing(map, slotName) ==
    LET made == NotNullSlotEvaluator(slotName, "null value is invalid")
    IN  IF slotName \in DOMAIN map
        THEN [slotEvaluator |-> map[slotName],
              map           |-> [map EXCEPT ![slotName] = made],
              calls         |-> <<>>]
        ELSE [slotEvaluator |-> made,
              map           |-> (slotName :> made) @@ map,
              calls         |-> <<[op |-> "console.log", slot |-> slotName]>>]

\* mutant: the evaluator made for a slot without one is not kept
getSlotEvaluatorUncached(map, slotName) ==
    IF slotName \in DOMAIN map
    THEN [slotEvaluator |-> map[slotName], map |-> map, calls |-> <<>>]
    ELSE [slotEvaluator |-> NotNullSlotEvaluator(slotName, "null value is invalid"),
          map           |-> map,
          calls         |-> <<[op |-> "console.log", slot |-> slotName]>>]

\* DefaultDialogEventHandler.getSlotEvaluator: the evaluator found or made,
\* the map as the call leaves it, and the diagnostic it writes when it makes
\* one
getSlotEvaluator(map, slotName) ==
    IF slotName \in DOMAIN map
    THEN [slotEvaluator |-> map[slotName], map |-> map, calls |-> <<>>]
    ELSE LET made == NotNullSlotEvaluator(slotName, "null value is invalid")
         IN  [slotEvaluator |-> made,
              map           |-> (slotName :> made) @@ map,
              calls         |-> <<[op |-> "console.log", slot |-> slotName]>>]

\* mutant: the slot is left as it was
ClearSlotSkipped(ev, slotName) == ev

\* mutant: the rejected slot is set to a value of handle's own, not to null
ClearSlotToPlaceholder(ev, slotName) ==
    [ev EXCEPT !.currentIntent.slots[slotName] = <<"x">>]

\* mutant: every slot of the turn is cleared
ClearEverySlot(ev, slotName) ==
    [ev EXCEPT !.currentIntent.slots = [sn \in DOMAIN @ |-> Null]]

\* handle, line 352: lexEvent.currentIntent.slots[slotName] = null
ClearSlot(ev, slotName) ==
    [ev EXCEPT !.currentIntent.slots[slotName] = Null]

\* mutant: only a value valid in this turn passes
IsRejectedUnlessValidSlot(slotEvalResult) == slotEvalResult.valid # VALID_SLOT

\* handle, line 351: the test that ends the loop
IsRejected(slotEvalResult) == slotEvalResult.valid = INVALID

\* mutant: the hook is called for the slots that passed only
SlotEvaluationHookCallsIfValid(cfg, evaluator, slotEvalResult) ==
    IF "slotEvaluationHook" \in DOMAIN cfg /\ slotEvalResult.valid # INVALID
    THEN <<[op             |-> "slotEvaluationHook",
            slot           |-> evaluator.slotName,
            slotEvaluator  |-> evaluator,
            slotEvalResult |-> slotEvalResult]>>
    ELSE <<>>

\* handle, lines 346-347: the calls of the slot evaluation hook
SlotEvaluationHookCalls(cfg, evaluator, slotEvalResult) ==
    IF "slotEvaluationHook" \in DOMAIN cfg
    THEN <<[op             |-> "slotEvaluationHook",
            slot           |-> evaluator.slotName,
            slotEvaluator  |-> evaluator,
            slotEvalResult |-> slotEvalResult]>>
    ELSE <<>>

\* the turn as config.slotEvaluationHook(lexEvent, slotEvaluator, se) leaves
\* it.  A hook is the client's code; the configuration says what its body
\* does: nothing; what the order-flowers hook does (for a VALID_SLOT
\* assessment of its slot, set the session attribute price to "3" for its
\* value and to "2" otherwise); set a session attribute named after the slot;
\* or set the slot itself to a value.
HookLeaves(cfg, ev, evaluator, slotEvalResult) ==
    IF "slotEvaluationHook" \notin DOMAIN cfg
       \/ "slotEvaluationHookBody" \notin DOMAIN cfg
    THEN ev
    ELSE LET body == cfg.slotEvaluationHookBody
         IN  CASE body.writes = "price" ->
                    IF /\ slotEvalResult.valid = VALID_SLOT
                       /\ evaluator.slotName = body.slotName
                    THEN [ev EXCEPT !.sessionAttributes =
                            ("price" :> IF slotEvalResult.slotValue.value = body.roses
                                        THEN <<"3">> ELSE <<"2">>) @@ @]
                    ELSE ev
               [] body.writes = "attribute" ->
                    [ev EXCEPT !.sessionAttributes =
                        (evaluator.slotName :> body.value) @@ @]
               [] body.writes = "slot" ->
                    [ev EXCEPT !.currentIntent.slots[evaluator.slotName] = body.value]

\* handle, lines 353-356: the response to an invalid slot
InvalidSlotResponse(cfg, ev, evaluator, slotEvalResult) ==
    IF "invalidSlotResponder" \in DOMAIN cfg
    THEN clientInvalidSlotResponder(ev, evaluator, slotEvalResult)
    ELSE defaultInvalidSlotResponder(ev, evaluator, slotEvalResult)

\* handle, lines 353-356: which responder is called
InvalidSlotResponderCalls(cfg, evaluator) ==
    IF "invalidSlotResponder" \in DOMAIN cfg
    THEN <<[op |-> "invalidSlotResponder", slot |-> evaluator.slotName]>>
    ELSE <<[op |-> "defaultInvalidSlotResponder", slot |-> evaluator.slotName]>>

\* handle, lines 362-363: the calls of the all-slots-valid hook
AllSlotsValidHookCalls(cfg) ==
    IF "allSlotsValidHook" \in DOMAIN cfg
    THEN <<[op |-> "allSlotsValidHook"]>>
    ELSE <<>>

\* handle, lines 367-370: the response when no slot was rejected
AllSlotsValidResponse(cfg, ev) ==
    IF "allSlotsValidResponder" \in DOMAIN cfg
    THEN clientAllSlotsValidResponder(ev)
    ELSE defaultAllSlotsValidResponder(ev)

\* handle, lines 367-370: which responder is called
AllSlotsValidResponderCalls(cfg) ==
    IF "allSlotsValidResponder" \in DOMAIN cfg
    THEN <<[op |-> "allSlotsValidResponder"]>>
    ELSE <<[op |-> "defaultAllSlotsValidResponder"]>>

\* mutant: the slot is assessed on the turn as the hook left it
EvaluateStepHookFirst(cfg, map, names, ev, i) ==
    LET slotName == names[i]
        got      == getSlotEvaluator(map, slotName)
        left     == HookLeaves(cfg, ev, got.slotEvaluator,
                               evaluate(got.slotEvaluator, ev))
        r        == evaluate(got.slotEvaluator, left)
    IN  [map            |-> got.map,
         slotEvaluator  |-> got.slotEvaluator,
         slotEvalResult |-> r,
         lexEvent       |-> left,
         calls          |-> got.calls
                            \o <<[op             |-> "evaluate",
                                   slot           |-> slotName,
                                   slotEvaluator  |-> got.slotEvaluator,
                                   slotEvalResult |-> r]>>
                            \o SlotEvaluationHookCalls(cfg, got.slotEvaluator, r)]

\* handle, lines 340-347, for the slot at position i: the evaluator is
\* resolved, evaluate is called, then the hook when there is one, which may
\* write to the turn
EvaluateStep(cfg, map, names, ev, i) ==
    LET slotName == names[i]
        got      == getSlotEvaluator(map, slotName)
        r        == evaluate(got.slotEvaluator, ev)
    IN  [map            |-> got.map,
         slotEvaluator  |-> got.slotEvaluator,
         slotEvalResult |-> r,
         lexEvent       |-> HookLeaves(cfg, ev, got.slotEvaluator, r),
         calls          |-> got.calls
                            \o <<[op             |-> "evaluate",
                                   slot           |-> slotName,
                                   slotEvaluator  |-> got.slotEvaluator,
                                   slotEvalResult |-> r]>>
                            \o SlotEvaluationHookCalls(cfg, got.slotEvaluator, r)]

\* mutant: the response is built first, the slot is cleared after
RejectStepRespondFirst(cfg, ev, slotName, evaluator, slotEvalResult) ==
    [lexEvent |-> ClearSlot(ev, slotName),
     result   |-> InvalidSlotResponse(cfg, ev, evaluator, slotEvalResult),
     calls    |-> InvalidSlotResponderCalls(cfg, evaluator)
                  \o <<[op |-> "clear", slot |-> slotName]>>]

\* handle, lines 352-356: the slot is cleared, then the response is built
RejectStep(cfg, ev, slotName, evaluator, slotEvalResult) ==
    LET cleared == ClearSlot(ev, slotName)
    IN  [lexEvent |-> cleared,
         result   |-> InvalidSlotResponse(cfg, cleared, evaluator, slotEvalResult),
         calls    |-> <<[op |-> "clear", slot |-> slotName]>>
                      \o InvalidSlotResponderCalls(cfg, evaluator)]

\* mutant: the response is built before the hook is called
AllSlotsValidStepHookLast(cfg, ev) ==
    [result |-> AllSlotsValidResponse(cfg, ev),
     calls  |-> AllSlotsValidResponderCalls(cfg) \o AllSlotsValidHookCalls(cfg)]

\* handle, lines 362-370: the hook when there is one, then the response
AllSlotsValidStep(cfg, ev) ==
    [result |-> AllSlotsValidResponse(cfg, ev),
     calls  |-> AllSlotsValidHookCalls(cfg) \o AllSlotsValidResponderCalls(cfg)]

---------------------------------------------------------------------------
(* The turns and configurations the model runs *)

SlotNames == {"A", "B"}

IntentNames == {"OrderFlowers", "Other"}

Str_x == <<"x">>
Str_y == <<"y">>
Str_z == <<"z">>
Str_date == <<"2", "0", "2", "0", "-", "0", "7", "-", "0", "6">>
Str_baddate == <<"2", "0", "2", "0", "-", "0", "2", "-", "3", "0">>
Str_money == <<"1", "2", ".", "5", "0">>
Str_badmoney == <<"1", "2", ".", "5">>
Str_old == <<"o", "l", "d">>

\* the set the set-membership evaluators are constructed with
MemberSet == {Str_x, Str_y}

\* the evaluators a configuration may list for the slot sn
EvaluatorsFor(sn) ==
    {NotNullSlotEvaluator(sn, "prompt of NotNull"),
     SetMembershipSlotEvaluator(sn, "prompt of SetMembership", MemberSet),
     LexDateSlotEvaluator(sn, "prompt of LexDate"),
     CurrencySlotEvaluator(sn, "prompt of Currency")}

BundledEvaluators == UNION {EvaluatorsFor(sn) : sn \in SlotNames}

SeqsUpTo(S, n) == UNION {[1..k -> S] : k \in 0..n}

\* the optional functions of a DialogEventHandlerConfig
HookNames == {"slotEvaluationHook", "allSlotsValidHook",
              "invalidSlotResponder", "allSlotsValidResponder"}

ConfigWith(array, hooks) ==
    [slotEvaluatorArray |-> array] @@ [h \in hooks |-> TRUE]

SlotDetails == [sn \in SlotNames |-> [resolutions |-> <<>>, originalValue |-> Null]]

Summaries ==
    [intentName : IntentNames,
     slots : [SlotNames -> {Null, Str_old}],
     slotToElicit : {"A"}]

Turn(slots, extras) ==
    [currentIntent    |-> [name               |-> "OrderFlowers",
                           slots              |-> slots,
                           slotDetails        |-> SlotDetails,
                           confirmationStatus |-> "None"],
     invocationSource |-> "DialogCodeHook"] @@ extras

SessionAttributes == {<<>>, [price |-> <<"3">>]}

\* the properties of a turn that may be null
TurnExtras(attrs, views) ==
    {<<>>}
    \cup {[sessionAttributes |-> a] : a \in attrs}
    \cup {[recentIntentSummaryView |-> v] : v \in views}
    \cup {[sessionAttributes |-> a, recentIntentSummaryView |-> v] :
            a \in attrs, v \in views}

Idle == <<>>

\* the state after `new DefaultDialogEventHandler(cfg)`, with the turn ev
\* about to be handled
Constructed(cfg, ev) ==
    /\ config = cfg
    /\ slotEvaluatorMap = MapOf(cfg.slotEvaluatorArray)
    /\ slotNameArray = NamesOf(cfg.slotEvaluatorArray)
    /\ lexEvent = ev
    /\ inbound = ev
    /\ pc = "loop"
    /\ idx = 1
    /\ se = Idle
    /\ result = Idle
    /\ log = <<>>
    /\ param = Idle
    /\ eventHandler = Idle
    /\ session = <<>>

\* one evaluator per slot, of every bundled class, on every kind of value,
\* with and without a summary of the current intent, and no hooks
InitBundled ==
    \E array \in {a \in SeqsUpTo(BundledEvaluators, MaxSlots) :
                     \A i, j \in 1..Len(a) :
                        a[i].slotName = a[j].slotName => i = j} :
    \E slots \in [SlotNames -> {Null, <<>>, Str_x, Str_date, Str_money}] :
    \E extras \in TurnExtras({[price |-> <<"3">>]},
                             {<<s>> : s \in {t \in Summaries :
                                               t.intentName = "OrderFlowers"}}) :
        /\ "sessionAttributes" \in DOMAIN extras
        /\ Constructed(ConfigWith(array, {}), Turn(slots, extras))

\* every combination of hooks and responders, on turns with and without
\* session attributes and a summary that holds a value for slot A
InitHooks ==
    \E array \in SeqsUpTo({e \in BundledEvaluators :
                             e.kind \in {"NotNull", "SetMembership"}}, MaxSlots) :
    \E hooks \in SUBSET HookNames :
    \E slots \in [SlotNames -> {Null, Str_x, Str_z}] :
    \E extras \in TurnExtras({[price |-> <<"3">>]},
                             {<<[intentName   |-> "OrderFlowers",
                                 slots        |-> [sn \in SlotNames |->
                                                     IF sn = "A" THEN Str_old ELSE Null],
                                 slotToElicit |-> "B"]>>}) :
        Constructed(ConfigWith(array, hooks), Turn(slots, extras))

\* every list of summaries, of the current intent and of another one
InitSummaries ==
    \E array \in SeqsUpTo(BundledEvaluators, 1) :
    \E slots \in [SlotNames -> {Null, Str_x}] :
    \E extras \in TurnExtras({[price |-> <<"3">>]},
                             SeqsUpTo(Summaries, MaxSummaries)) :
        /\ "sessionAttributes" \in DOMAIN extras
        /\ Constructed(ConfigWith(array, {}), Turn(slots, extras))

Init == InitBundled \/ InitHooks \/ InitSummaries

---------------------------------------------------------------------------
(* DefaultDialogEventHandler.handle, one step of its loop at a time *)

\* mutant: the hook is given a copy of the turn, so what it writes is lost
EvaluateSlotHookOnCopy ==
    /\ pc = "loop"
    /\ idx <= Len(slotNameArray)
    /\ ~Throws(getSlotEvaluator(slotEvaluatorMap, slotNameArray[idx]).slotEvaluator,
               lexEvent)
    /\ LET step == EvaluateStep(config, slotEvaluatorMap, slotNameArray, lexEvent, idx)
       IN  /\ slotEvaluatorMap' = step.map
           /\ se' = [slotEvaluator  |-> step.slotEvaluator,
                     slotEvalResult |-> step.slotEvalResult]
           /\ log' = log \o step.calls
    /\ pc' = "evaluated"
    /\ UNCHANGED <<eventHandler, session,
                   config, slotNameArray, lexEvent, inbound, idx, result, param>>

\* lines 340-347: evaluate the slot at idx and call the hook
EvaluateSlot ==
    /\ pc = "loop"
    /\ idx <= Len(slotNameArray)
    /\ ~Throws(getSlotEvaluator(slotEvaluatorMap, slotNameArray[idx]).slotEvaluator,
               lexEvent)
    /\ LET step == EvaluateStep(config, slotEvaluatorMap, slotNameArray, lexEvent, idx)
       IN  /\ slotEvaluatorMap' = step.map
           /\ se' = [slotEvaluator  |-> step.slotEvaluator,
                     slotEvalResult |-> step.slotEvalResult]
           /\ log' = log \o step.calls
           /\ lexEvent' = step.lexEvent
    /\ pc' = "evaluated"
    /\ UNCHANGED <<eventHandler, session,
                   config, slotNameArray, inbound, idx, result, param>>

\* mutant: the response is built but handle does not return
RejectSlotWithoutReturn ==
    /\ pc = "evaluated"
    /\ IsRejected(se.slotEvalResult)
    /\ LET step == RejectStep(config, lexEvent, slotNameArray[idx],
                              se.slotEvaluator, se.slotEvalResult)
       IN  /\ lexEvent' = step.lexEvent
           /\ result' = step.result
           /\ log' = log \o step.calls
    /\ idx' = idx + 1
    /\ pc' = "loop"
    /\ UNCHANGED <<eventHandler, session,
                   config, slotEvaluatorMap, slotNameArray, inbound, se, param>>

\* lines 351-357: the slot is invalid; clear it, respond and return
RejectSlot ==
    /\ pc = "evaluated"
    /\ IsRejected(se.slotEvalResult)
    /\ LET step == RejectStep(config, lexEvent, slotNameArray[idx],
                              se.slotEvaluator, se.slotEvalResult)
       IN  /\ lexEvent' = step.lexEvent
           /\ result' = step.result
           /\ log' = log \o step.calls
    /\ pc' = "done"
    /\ UNCHANGED <<eventHandler, session,
                   config, slotEvaluatorMap, slotNameArray, inbound, idx, se, param>>

\* line 358: the slot passed; on to the next one
NextSlot ==
    /\ pc = "evaluated"
    /\ ~IsRejected(se.slotEvalResult)
    /\ idx' = idx + 1
    /\ pc' = "loop"
    /\ UNCHANGED <<eventHandler, session,
                   config, slotEvaluatorMap, slotNameArray, lexEvent, inbound,
                   se, result, log, param>>

\* lines 362-370: no slot was rejected
AllSlotsValid ==
    /\ pc = "loop"
    /\ idx > Len(slotNameArray)
    /\ LET step == AllSlotsValidStep(config, lexEvent)
       IN  /\ result' = step.result
           /\ log' = log \o step.calls
    /\ pc' = "done"
    /\ UNCHANGED <<eventHandler, session,
                   config, slotEvaluatorMap, slotNameArray, lexEvent, inbound,
                   idx, se, param>>

Next == EvaluateSlot \/ RejectSlot \/ NextSlot \/ AllSlotsValid

Spec == Init /\ [][Next]_vars

---------------------------------------------------------------------------
(* handle with evaluators that throw *)

\* the turn ev with a null currentIntent.slotDetails
WithoutSlotDetails(ev) ==
    [ev EXCEPT !.currentIntent =
        [f \in DOMAIN ev.currentIntent \ {"slotDetails"} |-> ev.currentIntent[f]]]

\* the evaluators of a configuration some of whose evaluators throw
EvaluatorsThatMayThrow ==
    UNION {{NotNullSlotEvaluator(sn, "prompt of NotNull"),
            SetMembershipSlotEvaluator(sn, "prompt of SetMembership", MemberSet),
            ThrowingSlotEvaluator(sn, "prompt of Custom", "evaluate"),
            ThrowingSlotEvaluator(sn, "prompt of Custom", "isValid")} :
           sn \in SlotNames}

\* configurations with clients' evaluators that throw, with every
\* combination of hooks and responders; and bundled evaluators on a turn
\* that has no slotDetails
InitThrowing ==
    \/ \E array \in SeqsUpTo(EvaluatorsThatMayThrow, MaxSlots) :
       \E hooks \in SUBSET HookNames :
       \E slots \in [SlotNames -> {Null, Str_x}] :
          Constructed(ConfigWith(array, hooks),
                      Turn(slots, [sessionAttributes |-> [price |-> <<"3">>]]))
    \/ \E array \in SeqsUpTo(BundledEvaluators, 1) :
       \E hooks \in {{}, HookNames} :
       \E slots \in [SlotNames -> {Null, Str_x}] :
          Constructed(ConfigWith(array, hooks),
                      WithoutSlotDetails(Turn(slots, <<>>)))

\* mutant: the hook is called for the slot before the exception leaves handle
EvaluateSlotThrowsAfterHook ==
    /\ pc = "loop"
    /\ idx <= Len(slotNameArray)
    /\ LET got == getSlotEvaluator(slotEvaluatorMap, slotNameArray[idx])
       IN  /\ Throws(got.slotEvaluator, lexEvent)
           /\ slotEvaluatorMap' = got.map
           /\ log' = log \o got.calls
                          \o SlotEvaluationHookCalls(config, got.slotEvaluator, Idle)
                          \o <<[op |-> "throw", slot |-> slotNameArray[idx]]>>
    /\ pc' = "thrown"
    /\ UNCHANGED <<eventHandler, session,
                   config, slotNameArray, lexEvent, inbound, idx, se, result, param>>

\* mutant: handle catches what the evaluator throws and re-asks the slot
EvaluateSlotThrowsCaught ==
    /\ pc = "loop"
    /\ idx <= Len(slotNameArray)
    /\ LET got == getSlotEvaluator(slotEvaluatorMap, slotNameArray[idx])
       IN  /\ Throws(got.slotEvaluator, lexEvent)
           /\ slotEvaluatorMap' = got.map
           /\ log' = log \o got.calls
                          \o <<[op |-> "throw", slot |-> slotNameArray[idx]]>>
           /\ result' = InvalidSlotResponse(config, lexEvent, got.slotEvaluator, Idle)
    /\ pc' = "done"
    /\ UNCHANGED <<eventHandler, session,
                   config, slotNameArray, lexEvent, inbound, idx, se, param>>

\* line 343: slotEvaluator.evaluate throws; nothing in handle catches it
EvaluateSlotThrows ==
    /\ pc = "loop"
    /\ idx <= Len(slotNameArray)
    /\ LET got == getSlotEvaluator(slotEvaluatorMap, slotNameArray[idx])
       IN  /\ Throws(got.slotEvaluator, lexEvent)
           /\ slotEvaluatorMap' = got.map
           /\ log' = log \o got.calls
                          \o <<[op |-> "throw", slot |-> slotNameArray[idx]]>>
    /\ pc' = "thrown"
    /\ UNCHANGED <<eventHandler, session,
                   config, slotNameArray, lexEvent, inbound, idx, se, result, param>>

NextThrow ==
    EvaluateSlot \/ EvaluateSlotThrows \/ RejectSlot \/ NextSlot \/ AllSlotsValid

SpecThrow == InitThrowing /\ [][NextThrow]_vars

---------------------------------------------------------------------------
(* handle with a client's evaluators that give newSlots and a client's     *)
(* slot evaluation hook that writes to the turn                            *)

\* the replacement mapping the clients' evaluators give
NewSlots == [sn \in SlotNames |-> Str_y]

\* bundled evaluators, and clients' evaluators that assess INVALID or
\* VALID_SLOT and give a replacement mapping
ClientEvaluators ==
    UNION {{NotNullSlotEvaluator(sn, "prompt of NotNull"),
            SetMembershipSlotEvaluator(sn, "prompt of SetMembership", MemberSet),
            ReplacingSlotEvaluator(sn, "prompt of Replacing", INVALID, NewSlots),
            ReplacingSlotEvaluator(sn, "prompt of Replacing", VALID_SLOT, NewSlots)} :
           sn \in SlotNames}

\* what the body of a client's slot evaluation hook does: the order-flowers
\* hook with slot A for FlowerType and "x" for 'roses', a hook that marks
\* every slot it is called for in the session attributes, and a hook that
\* puts a value of its own into the slot
HookBodies ==
    {[writes |-> "price", slotName |-> "A", roses |-> Str_x],
     [writes |-> "attribute", value |-> <<"s">>],
     [writes |-> "slot", value |-> Str_y]}

\* the configurations: no hook, a hook that writes nothing, and a hook of
\* each body; the turns have session attributes (an empty object or one with
\* a price), as a hook that writes an attribute needs them
InitClient ==
    \E array \in SeqsUpTo(ClientEvaluators, MaxSlots) :
    \E hook \in {<<>>, [slotEvaluationHook |-> TRUE]}
                \cup {[slotEvaluationHook |-> TRUE, slotEvaluationHookBody |-> b] :
                        b \in HookBodies} :
    \E slots \in [SlotNames -> {Null, Str_x, Str_z}] :
    \E extras \in TurnExtras(SessionAttributes,
                             {<<[intentName   |-> "OrderFlowers",
                                 slots        |-> [sn \in SlotNames |->
                                                     IF sn = "A" THEN Str_old ELSE Null],
                                 slotToElicit |-> "B"]>>}) :
        /\ "sessionAttributes" \in DOMAIN extras
        /\ Constructed(ConfigWith(array, {}) @@ hook, Turn(slots, extras))

NextClient == EvaluateSlot \/ RejectSlot \/ NextSlot \/ AllSlotsValid

SpecClient == InitClient /\ [][NextClient]_vars

---------------------------------------------------------------------------
(* A conversation: the turns Lex sends to one engine, each built from the  *)
(* response to the turn before and the user's answer                       *)

\* the number of exchanges after which the model follows a conversation no
\* further
MaxTurns == 5

\* the slots of the conversation's intent
SessionSlotNames == {"A", "B", "C"}

\* what a user may answer
AnswerValues == {Str_x, Str_date, Str_money}

\* the answers the evaluator accepts by its own rule
AcceptableValues(slotEvaluator) ==
    {v \in AnswerValues :
        isValid(slotEvaluator,
                [value       |-> v,
                 details     |-> [resolutions |-> <<>>, originalValue |-> v],
                 recentValue |-> Null]) = VALID_SLOT}

\* configurations with one bundled evaluator for each of some slots of the
\* intent, in any order, and a slot evaluation hook as the order-flowers bot
\* has one
SessionArrays ==
    {a \in SeqsUpTo(UNION {EvaluatorsFor(sn) : sn \in SessionSlotNames},
                    Cardinality(SessionSlotNames)) :
        /\ a # <<>>
        /\ \A i, j \in 1..Len(a) : a[i].slotName = a[j].slotName => i = j}

\* the first turn of a conversation: no summaries yet; a slot is absent or
\* holds what the utterance gave it
FirstTurn(slots) ==
    [currentIntent    |-> [name               |-> "OrderFlowers",
                           slots              |-> slots,
                           slotDetails        |->
                               [sn \in SessionSlotNames |->
                                   [resolutions |-> <<>>, originalValue |-> slots[sn]]],
                           confirmationStatus |-> "None"],
     invocationSource  |-> "DialogCodeHook",
     sessionAttributes |-> <<>>]

InitSession ==
    \E array \in SessionArrays :
    \E hooks \in {{"slotEvaluationHook"}} :
    \E slots \in [SessionSlotNames -> AnswerValues \cup {Null}] :
        /\ \A sn \in SessionSlotNames :
              slots[sn] # Null =>
                 \E i \in 1..Len(array) :
                    /\ array[i].slotName = sn
                    /\ slots[sn] \in AcceptableValues(array[i])
        /\ Constructed(ConfigWith(array, hooks), FirstTurn(slots))

\* Lex sends the next turn: the slots of the response with the user's answer
\* for the slot that was elicited, and a summary that shows the slots of the
\* response
NextTurn ==
    /\ pc = "done"
    /\ Len(session) < MaxTurns
    /\ result.dialogAction.type = "ElicitSlot"
    /\ LET sn == result.dialogAction.slotToElicit
           intentSummary == [intentName   |-> lexEvent.currentIntent.name,
                             slots        |-> result.dialogAction.slots,
                             slotToElicit |-> sn]
       IN  \E v \in AcceptableValues(slotEvaluatorMap[sn]) :
              lexEvent' =
                 [recentIntentSummaryView |-> <<intentSummary>>]
                 @@ [lexEvent EXCEPT
                       !.currentIntent.slots = [result.dialogAction.slots
                                                   EXCEPT ![sn] = v],
                       !.currentIntent.slotDetails[sn].originalValue = v]
    /\ inbound' = lexEvent'
    /\ session' = Append(session, [turn |-> inbound, result |-> result])
    /\ pc' = "loop"
    /\ idx' = 1
    /\ se' = Idle
    /\ result' = Idle
    /\ log' = <<>>
    /\ UNCHANGED <<eventHandler, config, slotEvaluatorMap, slotNameArray, param>>

NextSession ==
    EvaluateSlot \/ RejectSlot \/ NextSlot \/ AllSlotsValid \/ NextTurn

SpecSession == InitSession /\ [][NextSession]_vars

---------------------------------------------------------------------------
(* One engine handling one turn after the other                            *)

\* the number of calls of handle the model follows on one engine
MaxCalls == 3

\* the turns an engine is given: every combination of a value and no value
\* for the two slots
EngineTurns == {Turn(slots, <<>>) : slots \in [SlotNames -> {Null, Str_x}]}

\* the slot names a subclass of DefaultDialogEventHandler pushes onto the
\* protected slotNameArray after super(config)
SubclassNames == {<<"A">>, <<"B">>, <<"A", "B">>, <<"B", "A">>, <<"B", "B">>}

\* engines built by the constructor from one bundled evaluator per slot, and
\* engines of a subclass whose order list has names beyond the configuration
InitEngine ==
    \E ev \in EngineTurns :
       \/ \E array \in {a \in SeqsUpTo(BundledEvaluators, MaxSlots) :
                           \A i, j \in 1..Len(a) :
                              a[i].slotName = a[j].slotName => i = j} :
             Constructed(ConfigWith(array, {}), ev)
       \/ \E array \in SeqsUpTo(BundledEvaluators, 1) :
          \E names \in SubclassNames :
             /\ config = ConfigWith(array, {})
             /\ slotEvaluatorMap = MapOf(array)
             /\ slotNameArray = NamesOf(array) \o names
             /\ lexEvent = ev
             /\ inbound = ev
             /\ pc = "loop"
             /\ idx = 1
             /\ se = Idle
             /\ result = Idle
             /\ log = <<>>
             /\ param = Idle
             /\ eventHandler = Idle
             /\ session = <<>>

\* the call has returned; handle is called on the next turn
HandleNextTurn ==
    /\ pc = "done"
    /\ Len(session) + 1 < MaxCalls
    /\ \E ev \in EngineTurns :
          /\ lexEvent' = ev
          /\ inbound' = ev
    /\ session' = Append(session, [turn |-> inbound, result |-> result, log |-> log])
    /\ pc' = "loop"
    /\ idx' = 1
    /\ se' = Idle
    /\ result' = Idle
    /\ log' = <<>>
    /\ UNCHANGED <<eventHandler, config, slotEvaluatorMap, slotNameArray, param>>

NextEngine ==
    EvaluateSlot \/ RejectSlot \/ NextSlot \/ AllSlotsValid \/ HandleNextTurn

SpecEngine == InitEngine /\ [][NextEngine]_vars

---------------------------------------------------------------------------
(* handle called again on the turn as the call before left it              *)

\* the call has returned; handle is called on the same turn object again
HandleAgain ==
    /\ pc = "done"
    /\ Len(session) + 1 < MaxCalls
    /\ session' = Append(session,
                         [turn |-> inbound, result |-> result, left |-> lexEvent])
    /\ inbound' = lexEvent
    /\ pc' = "loop"
    /\ idx' = 1
    /\ se' = Idle
    /\ result' = Idle
    /\ log' = <<>>
    /\ UNCHANGED <<eventHandler, config, slotEvaluatorMap, slotNameArray,
                   lexEvent, param>>

\* bundled evaluators, no hooks and the default responders
InitAgain == InitBundled \/ InitSummaries

NextAgain ==
    EvaluateSlot \/ RejectSlot \/ NextSlot \/ AllSlotsValid \/ HandleAgain

SpecAgain == InitAgain /\ [][NextAgain]_vars

---------------------------------------------------------------------------
(* The bundled evaluators called one at a time, on many values *)

\* the longest string of the enumerated currency values
MaxLen == 4

CurrencyAlphabet == {"0", "1", "5", ".", "x"}

Str_moneyxyz == <<"1", "2", ".", "5", "0", "x", "y", "z">>

CurrencyValues ==
    SeqsUpTo(CurrencyAlphabet, MaxLen)
    \cup {Null, Str_money, Str_badmoney, Str_moneyxyz}

DigitChar(n) == CHOOSE c \in Digits : DigitValue(c) = n

TwoDigits(n) == <<DigitChar(n \div 10), DigitChar(n % 10)>>

\* a century year that is no leap year, the year of the epoch, a century
\* leap year, a leap year and a common year
Years ==
    {<<"1", "9", "0", "0">>, <<"1", "9", "7", "0">>, <<"2", "0", "0", "0">>,
     <<"2", "0", "2", "0">>, <<"2", "0", "2", "1">>}

\* every YYYY-MM-DD and YYYY-MM of those years with a month of 00..13 and a
\* day of 00..32, the years alone, and values that are no dates
DateValues ==
    {y \o <<"-">> \o TwoDigits(mo) \o <<"-">> \o TwoDigits(d) :
        y \in Years, mo \in 0..13, d \in 0..32}
    \cup {y \o <<"-">> \o TwoDigits(mo) : y \in Years, mo \in 0..13}
    \cup Years
    \cup {Null, <<>>, Str_x, <<"2", "0", "2", "0", "0", "7", "0", "6">>}

SetValues == SeqsUpTo({"x", "y", "X"}, 2) \cup {Null}

\* the sets a set-membership evaluator is constructed with
MemberSets == SUBSET {<<>>, Str_x, Str_y, <<"x", "y">>}

\* an evaluator for slot A and a current value for the slot
EvaluatorInputs ==
    {<<NotNullSlotEvaluator("A", "prompt of NotNull"), v>> :
        v \in {Null, <<>>, Str_x, <<"0">>}}
    \cup {<<SetMembershipSlotEvaluator("A", "prompt of SetMembership", s), v>> :
            s \in MemberSets, v \in SetValues}
    \cup {<<LexDateSlotEvaluator("A", "prompt of LexDate"), v>> : v \in DateValues}
    \cup {<<CurrencySlotEvaluator("A", "prompt of Currency"), v>> :
            v \in CurrencyValues}

\* a turn without summaries, and turns whose summary of the current intent
\* has no value or a value for slot A
InitEvaluators ==
    \E input \in EvaluatorInputs :
    \E extras \in TurnExtras({<<>>},
                             {<<[intentName   |-> "OrderFlowers",
                                 slots        |-> [sn \in SlotNames |->
                                                     IF sn = "A" THEN r ELSE Null],
                                 slotToElicit |-> "A"]>> : r \in {Null, Str_old}}) :
        /\ "sessionAttributes" \in DOMAIN extras
        /\ lexEvent = Turn([sn \in SlotNames |-> IF sn = "A" THEN input[2] ELSE Null],
                           extras)
        /\ inbound = lexEvent
        /\ se = [slotEvaluator |-> input[1]]
        /\ pc = "evaluator"
        /\ config = Idle
        /\ slotEvaluatorMap = Idle
        /\ slotNameArray = <<>>
        /\ idx = 1
        /\ result = Idle
        /\ log = <<>>
        /\ param = Idle
        /\ eventHandler = Idle
        /\ session = <<>>

\* a call of slotEvaluator.evaluate(lexEvent)
CallEvaluate ==
    /\ pc = "evaluator"
    /\ se' = [slotEvaluator  |-> se.slotEvaluator,
              slotEvalResult |-> evaluate(se.slotEvaluator, lexEvent)]
    /\ pc' = "assessed"
    /\ UNCHANGED <<eventHandler, session, config, slotEvaluatorMap,
                   slotNameArray, lexEvent, inbound, idx, result, log, param>>

NextEvaluators == CallEvaluate

SpecEvaluators == InitEvaluators /\ [][NextEvaluators]_vars

---------------------------------------------------------------------------
(* LexResultFactory called directly, as a fulfillment handler or a client's *)
(* responder calls it                                                       *)

ResponseMessages == {[contentType |-> "PlainText", content |-> "a message"]}

\* the optional properties every factory parameter may carry
FactoryExtras ==
    TurnExtras(SessionAttributes, SeqsUpTo(Summaries, 1))

OptionalMessage == {<<>>} \cup {[message |-> m] : m \in ResponseMessages}

SampleSlots == [SlotNames -> {Null, Str_x}]

CloseParams ==
    {[fulfillmentState |-> f] @@ m @@ x :
        f \in {"Fulfilled", "Failed"}, m \in OptionalMessage, x \in FactoryExtras}

DelegateParams ==
    {sl @@ x : sl \in {<<>>} \cup {[slots |-> q] : q \in SampleSlots},
               x \in FactoryExtras}

ElicitSlotParams ==
    {[intentName |-> "OrderFlowers", slotToElicit |-> sn, slots |-> q] @@ m @@ x :
        sn \in SlotNames, q \in SampleSlots, m \in OptionalMessage,
        x \in FactoryExtras}

InitFactory ==
    /\ config = Idle
    /\ slotEvaluatorMap = Idle
    /\ slotNameArray = <<>>
    /\ lexEvent = Idle
    /\ inbound = Idle
    /\ pc = "factory"
    /\ idx = 1
    /\ se = Idle
    /\ result = Idle
    /\ log = <<>>
    /\ param = Idle
    /\ eventHandler = Idle
    /\ session = <<>>

\* a call of LexResultFactory.dialogActionClose
CallClose ==
    /\ pc = "factory"
    /\ \E p \in CloseParams :
          /\ param' = p
          /\ result' = dialogActionClose(p)
    /\ log' = <<[op |-> "dialogActionClose"]>>
    /\ pc' = "made"
    /\ UNCHANGED <<eventHandler, session,
                   config, slotEvaluatorMap, slotNameArray, lexEvent, inbound,
                   idx, se>>

\* a call of LexResultFactory.dialogActionDelegate
CallDelegate ==
    /\ pc = "factory"
    /\ \E p \in DelegateParams :
          /\ param' = p
          /\ result' = dialogActionDelegate(p)
    /\ log' = <<[op |-> "dialogActionDelegate"]>>
    /\ pc' = "made"
    /\ UNCHANGED <<eventHandler, session,
                   config, slotEvaluatorMap, slotNameArray, lexEvent, inbound,
                   idx, se>>

\* a call of LexResultFactory.dialogActionElicitSlot
CallElicitSlot ==
    /\ pc = "factory"
    /\ \E p \in ElicitSlotParams :
          /\ param' = p
          /\ result' = dialogActionElicitSlot(p)
    /\ log' = <<[op |-> "dialogActionElicitSlot"]>>
    /\ pc' = "made"
    /\ UNCHANGED <<eventHandler, session,
                   config, slotEvaluatorMap, slotNameArray, lexEvent, inbound,
                   idx, se>>

NextFactory == CallClose \/ CallDelegate \/ CallElicitSlot

SpecFactory == InitFactory /\ [][NextFactory]_vars

---------------------------------------------------------------------------
(* route *)

\* values of lexEvent.invocationSource: the two route knows and two others
InvocationSources ==
    {"DialogCodeHook", "FulfillmentCodeHook", "dialogcodehook", "Neither"}

\* results a client's handler resolves to
HandlerResults ==
    {dialogActionClose([fulfillmentState |-> "Fulfilled",
                        message |-> [contentType |-> "PlainText",
                                     content     |-> "Flowers have been ordered"]]),
     dialogActionDelegate([slots |-> [sn \in SlotNames |-> Str_x]]),
     dialogActionElicitSlot([intentName   |-> "OrderFlowers",
                             slotToElicit |-> "B",
                             slots        |-> [sn \in SlotNames |-> Null]])}

\* an EventHandler as route sees it: its handle resolves to a result, throws,
\* or returns a promise that rejects; before that it may have written a
\* session attribute into the turn it was given
Handlers ==
    LET outcomes == {[outcome |-> "resolves", result |-> r] : r \in HandlerResults}
                    \cup {[outcome |-> "throws"], [outcome |-> "rejects"]}
    IN  outcomes \cup {h @@ [writes |-> [price |-> <<"9">>]] : h \in outcomes}

\* the turn as the handler h leaves it
HandlerLeaves(h, ev) ==
    IF "writes" \in DOMAIN h THEN [sessionAttributes |-> h.writes] @@ ev ELSE ev

\* mutant: the failure result leaves the session attributes out
RouteFailureWithoutAttributes(ev) ==
    dialogActionClose(
        [fulfillmentState |-> "Failed",
         message          |-> [contentType |-> "PlainText",
                               content     |-> "Unxpected error occurred"]])

\* route, lines 44-55: the catch block's result
RouteFailure(ev) ==
    dialogActionClose(
        [fulfillmentState |-> "Failed",
         message          |-> [contentType |-> "PlainText",
                               content     |-> "Unxpected error occurred"]]
        @@ Pick(ev, "sessionAttributes"))

InitRoute ==
    \E source \in InvocationSources :
    \E slots \in SampleSlots :
    \E extras \in TurnExtras(SessionAttributes, {<<>>}) :
    \E d \in Handlers, f \in Handlers :
        /\ lexEvent = [Turn(slots, extras) EXCEPT !.invocationSource = source]
        /\ inbound = lexEvent
        /\ eventHandler = [dialog |-> d, fulfill |-> f]
        /\ pc = "route"
        /\ config = Idle
        /\ slotEvaluatorMap = Idle
        /\ slotNameArray = <<>>
        /\ idx = 1
        /\ se = Idle
        /\ result = Idle
        /\ log = <<>>
        /\ param = Idle
        /\ session = <<>>

\* mutant: a dialog turn is given to the fulfillment handler
RouteDialogCallsFulfill ==
    /\ pc = "route"
    /\ lexEvent.invocationSource = "DialogCodeHook"
    /\ LET h    == eventHandler.fulfill
           left == HandlerLeaves(h, lexEvent)
       IN  /\ lexEvent' = left
           /\ result' = IF h.outcome = "resolves" THEN h.result
                        ELSE RouteFailure(left)
    /\ log' = <<[op |-> "fulfill.handle"]>>
    /\ pc' = "returned"
    /\ UNCHANGED <<eventHandler, session, config, slotEvaluatorMap,
                   slotNameArray, inbound, idx, se, param>>

\* route, lines 33-36 and 44-55: a dialog turn
RouteDialog ==
    /\ pc = "route"
    /\ lexEvent.invocationSource = "DialogCodeHook"
    /\ LET h    == eventHandler.dialog
           left == HandlerLeaves(h, lexEvent)
       IN  /\ lexEvent' = left
           /\ result' = IF h.outcome = "resolves" THEN h.result
                        ELSE RouteFailure(left)
    /\ log' = <<[op |-> "dialog.handle"]>>
    /\ pc' = "returned"
    /\ UNCHANGED <<eventHandler, session, config, slotEvaluatorMap,
                   slotNameArray, inbound, idx, se, param>>

\* route, lines 38-41 and 44-55: a fulfillment turn
RouteFulfill ==
    /\ pc = "route"
    /\ lexEvent.invocationSource = "FulfillmentCodeHook"
    /\ LET h    == eventHandler.fulfill
           left == HandlerLeaves(h, lexEvent)
       IN  /\ lexEvent' = left
           /\ result' = IF h.outcome = "resolves" THEN h.result
                        ELSE RouteFailure(left)
    /\ log' = <<[op |-> "fulfill.handle"]>>
    /\ pc' = "returned"
    /\ UNCHANGED <<eventHandler, session, config, slotEvaluatorMap,
                   slotNameArray, inbound, idx, se, param>>

\* mutant: a turn of unknown source is taken for a dialog turn
RouteMalformedAsDialog ==
    /\ pc = "route"
    /\ lexEvent.invocationSource \notin {"DialogCodeHook", "FulfillmentCodeHook"}
    /\ LET h    == eventHandler.dialog
           left == HandlerLeaves(h, lexEvent)
       IN  /\ lexEvent' = left
           /\ result' = IF h.outcome = "resolves" THEN h.result
                        ELSE RouteFailure(left)
    /\ log' = <<[op |-> "dialog.handle"]>>
    /\ pc' = "returned"
    /\ UNCHANGED <<eventHandler, session, config, slotEvaluatorMap,
                   slotNameArray, inbound, idx, se, param>>

\* route, lines 43-55: neither source; the Error thrown is caught
RouteMalformed ==
    /\ pc = "route"
    /\ lexEvent.invocationSource \notin {"DialogCodeHook", "FulfillmentCodeHook"}
    /\ result' = RouteFailure(lexEvent)
    /\ pc' = "returned"
    /\ UNCHANGED <<eventHandler, session, config, slotEvaluatorMap,
                   slotNameArray, lexEvent, inbound, idx, se, log, param>>

NextRoute == RouteDialog \/ RouteFulfill \/ RouteMalformed

SpecRoute == InitRoute /\ [][NextRoute]_vars

---------------------------------------------------------------------------
(* What the claims speak of, stated on the configuration and the inbound    *)
(* turn rather than on the engine's own bookkeeping                         *)

Registered == config.slotEvaluatorArray

Min(S) == CHOOSE i \in S : \A j \in S : i <= j

Max(S) == CHOOSE i \in S : \A j \in S : j <= i

\* the evaluator that answers for the slot name sn: the last one registered
EvaluatorOf(sn) ==
    Registered[Max({i \in 1..Len(Registered) : Registered[i].slotName = sn})]

\* the assessment of the slot registered at position i, on the inbound turn
AssessmentAt(i) == evaluate(EvaluatorOf(Registered[i].slotName), inbound).valid

InvalidPositions == {i \in 1..Len(Registered) : AssessmentAt(i) = INVALID}

Returned == pc = "done"

ReturnedReask ==
    Returned /\ result.dialogAction.type \in {"ElicitSlot", "ClientInvalidSlot"}

ReturnedDefaultReask == Returned /\ result.dialogAction.type = "ElicitSlot"

ReturnedProceed ==
    Returned /\ result.dialogAction.type \in {"Delegate", "ClientAllSlotsValid"}

\* the slot a re-ask names
ReaskedSlot ==
    IF result.dialogAction.type = "ElicitSlot"
    THEN result.dialogAction.slotToElicit
    ELSE result.slotEvaluator.slotName

NoHooks == DOMAIN config \cap HookNames = {}

\* the value the first summary of the current intent holds for the slot sn,
\* Null when there is no such summary
RecentValueOf(turn, sn) ==
    IF "recentIntentSummaryView" \notin DOMAIN turn THEN Null
    ELSE LET view == turn.recentIntentSummaryView
             own  == {i \in 1..Len(view) :
                        view[i].intentName = turn.currentIntent.name}
         IN  IF own = {} THEN Null ELSE view[Min(own)].slots[sn]

LogPositions(op) == {i \in 1..Len(log) : log[i].op = op}

---------------------------------------------------------------------------
(* Claims *)

\* C1: when handle returns a re-ask, the slot it names is the first slot in
\* registration order whose assessment is INVALID, never a later one.
C1_ReaskIsFirstInvalid ==
    ReturnedReask =>
        /\ InvalidPositions # {}
        /\ ReaskedSlot = Registered[Min(InvalidPositions)].slotName

\* C1 witness: two slots of different names are INVALID and the re-ask names
\* the one registered first.
C1_Witness ==
    /\ ReturnedReask
    /\ Cardinality({Registered[i].slotName : i \in InvalidPositions}) = 2
    /\ ReaskedSlot = Registered[1].slotName

\* C2: after an INVALID assessment answered by the default responder, the
\* response's slot map has the slot absent, the turn has it cleared, and the
\* response carries the turn's slot map.
C2_RejectedSlotIsAbsent ==
    (/\ Returned
     /\ InvalidPositions # {}
     /\ "invalidSlotResponder" \notin DOMAIN config) =>
        LET sn == Registered[Min(InvalidPositions)].slotName
        IN  /\ result.dialogAction.type = "ElicitSlot"
            /\ result.dialogAction.slots[sn] = Null
            /\ lexEvent.currentIntent.slots[sn] = Null
            /\ result.dialogAction.slots = lexEvent.currentIntent.slots

\* C2 witness: the rejected slot held a value in the inbound turn.
C2_Witness ==
    /\ ReturnedDefaultReask
    /\ inbound.currentIntent.slots[ReaskedSlot] \notin {Null, <<>>}
    /\ result.dialogAction.slots[ReaskedSlot] = Null

\* C3: with no hooks and no custom responders, a turn whose every registered
\* slot is assessed valid gets a Delegate whose slot map is the inbound slot
\* map, and the turn is left as it was.
C3_AllValidDelegatesUnchanged ==
    (Returned /\ NoHooks /\ InvalidPositions = {}) =>
        /\ result.dialogAction.type = "Delegate"
        /\ "slots" \in DOMAIN result.dialogAction
        /\ result.dialogAction.slots = inbound.currentIntent.slots
        /\ lexEvent = inbound

\* C3 witness: two slots, one valid this turn and one valid by the summary
\* while its current value is absent.
C3_Witness ==
    /\ Returned /\ NoHooks /\ InvalidPositions = {}
    /\ \E i, j \in 1..Len(Registered) :
         /\ AssessmentAt(i) = VALID_SLOT
         /\ AssessmentAt(j) = VALID_RECENT_SLOT
         /\ inbound.currentIntent.slots[Registered[j].slotName] = Null
    /\ result.dialogAction.type = "Delegate"

\* C4: for every bundled evaluator class, a slot for which the first summary
\* of the current intent holds a value is assessed VALID_RECENT_SLOT whatever
\* its current value is, and handle neither clears nor re-asks it.
C4_RecentValueWins ==
    /\ \A i \in LogPositions("evaluate") :
         RecentValueOf(inbound, log[i].slot) # Null
            => log[i].slotEvalResult.valid = VALID_RECENT_SLOT
    /\ Returned =>
         \A i \in 1..Len(Registered) :
            LET sn == Registered[i].slotName
            IN  RecentValueOf(inbound, sn) # Null =>
                  /\ lexEvent.currentIntent.slots[sn] = inbound.currentIntent.slots[sn]
                  /\ ReturnedReask => ReaskedSlot # sn

\* C4 witness: a date slot whose current value is absent and a currency slot
\* whose current value its own rule rejects both have a value in the summary,
\* and handle delegates.
C4_Witness ==
    /\ Returned
    /\ \E i, j \in LogPositions("evaluate") :
         /\ log[i].slotEvaluator.kind = "LexDate"
         /\ log[i].slotEvalResult.slotValue.value = Null
         /\ log[i].slotEvalResult.valid = VALID_RECENT_SLOT
         /\ log[j].slotEvaluator.kind = "Currency"
         /\ log[j].slotEvalResult.slotValue.value = Str_x
         /\ log[j].slotEvalResult.valid = VALID_RECENT_SLOT
    /\ result.dialogAction.type = "Delegate"

\* C5: once a slot is assessed INVALID, no evaluator and no hook is invoked
\* for a slot registered after it: the evaluations of a call that rejects
\* stop at the first INVALID position.
C5_NothingEvaluatedAfterInvalid ==
    /\ \A i \in LogPositions("evaluate") :
         log[i].slotEvalResult.valid = INVALID =>
            \A j \in (i + 1)..Len(log) :
               /\ log[j].op # "evaluate"
               /\ log[j].op = "slotEvaluationHook" =>
                     j = i + 1 /\ log[j].slot = log[i].slot
    /\ (Returned /\ InvalidPositions # {}) =>
         /\ Cardinality(LogPositions("evaluate")) = Min(InvalidPositions)
         /\ Cardinality(LogPositions("slotEvaluationHook")) <= Min(InvalidPositions)

\* C5 witness: the first of two registered slots is rejected, with a hook
\* configured, and the second one was not evaluated.
C5_Witness ==
    /\ ReturnedReask
    /\ "slotEvaluationHook" \in DOMAIN config
    /\ Len(Registered) = 2
    /\ Registered[1].slotName # Registered[2].slotName
    /\ Min(InvalidPositions) = 1
    /\ Cardinality(LogPositions("evaluate")) = 1

\* the number of slots a returned call has evaluated
EvaluatedCount ==
    IF InvalidPositions = {} THEN Len(Registered) ELSE Min(InvalidPositions)

\* C6: a configured per-evaluation hook is invoked exactly once for every
\* slot evaluated, whatever the assessment, with that slot's evaluator and
\* result, right after evaluate and before a clear or a response.
C6_HookOncePerEvaluation ==
    "slotEvaluationHook" \in DOMAIN config =>
        /\ \A i \in LogPositions("evaluate") :
             /\ i < Len(log)
             /\ log[i + 1] =
                  [op             |-> "slotEvaluationHook",
                   slot           |-> log[i].slot,
                   slotEvaluator  |-> EvaluatorOf(log[i].slot),
                   slotEvalResult |-> evaluate(EvaluatorOf(log[i].slot), inbound)]
        /\ \A j \in LogPositions("slotEvaluationHook") :
             /\ j > 1
             /\ log[j - 1].op = "evaluate"
             /\ \A c \in 1..(j - 1) :
                  log[c].op \in {"evaluate", "slotEvaluationHook"}
        /\ Returned =>
             Cardinality(LogPositions("slotEvaluationHook")) = EvaluatedCount

\* C6 witness: the hook was called for a slot valid by the summary and then
\* for a slot that is rejected.
C6_Witness ==
    /\ ReturnedReask
    /\ LogPositions("slotEvaluationHook") = {2, 4}
    /\ log[2].slotEvalResult.valid = VALID_RECENT_SLOT
    /\ log[4].slotEvalResult.valid = INVALID
    /\ log[5].op = "clear"

\* the log of a call that rejects nothing, after its evaluations
ProceedCalls ==
    (IF "allSlotsValidHook" \in DOMAIN config
     THEN <<[op |-> "allSlotsValidHook"]>> ELSE <<>>)
    \o (IF "allSlotsValidResponder" \in DOMAIN config
        THEN <<[op |-> "allSlotsValidResponder"]>>
        ELSE <<[op |-> "defaultAllSlotsValidResponder"]>>)

AllValidOps ==
    {"allSlotsValidHook", "allSlotsValidResponder", "defaultAllSlotsValidResponder"}

\* C7: when every slot passed, the all-valid hook (if configured) is invoked
\* exactly once, after the last evaluation and before the proceed response,
\* which is the custom responder's when one is configured and the default
\* Delegate otherwise; neither is invoked in a call that rejects a slot.
C7_AllValidHookThenResponder ==
    /\ (~Returned \/ InvalidPositions # {}) =>
          \A i \in 1..Len(log) : log[i].op \notin AllValidOps
    /\ (Returned /\ InvalidPositions = {}) =>
          LET n == Len(log) - Len(ProceedCalls)
          IN  /\ n >= 0
              /\ SubSeq(log, n + 1, Len(log)) = ProceedCalls
              /\ \A i \in 1..n : log[i].op \in {"evaluate", "slotEvaluationHook"}
              /\ Cardinality(LogPositions("evaluate")) = Len(Registered)
              /\ IF "allSlotsValidResponder" \in DOMAIN config
                 THEN result = [dialogAction |-> [type |-> "ClientAllSlotsValid"],
                                lexEvent     |-> lexEvent]
                 ELSE result.dialogAction.type = "Delegate"

\* C7 witness: two slots passed, with the all-valid hook and the custom
\* all-valid responder configured.
C7_Witness ==
    /\ Returned
    /\ InvalidPositions = {}
    /\ Len(Registered) = 2
    /\ {"allSlotsValidHook", "allSlotsValidResponder"} \subseteq DOMAIN config
    /\ result.dialogAction.type = "ClientAllSlotsValid"

\* C8: on an INVALID assessment with a custom rejection responder, handle
\* returns the responder's result, the default ElicitSlot is not built, and
\* the responder is called after the slot was cleared and sees it absent.
C8_CustomRejectionAfterClear ==
    (/\ Returned
     /\ InvalidPositions # {}
     /\ "invalidSlotResponder" \in DOMAIN config) =>
        LET sn == Registered[Min(InvalidPositions)].slotName
        IN  /\ result =
                 [dialogAction   |-> [type |-> "ClientInvalidSlot"],
                  slotEvaluator  |-> EvaluatorOf(sn),
                  slotEvalResult |-> evaluate(EvaluatorOf(sn), inbound),
                  lexEvent       |-> [inbound EXCEPT !.currentIntent.slots[sn] = Null]]
            /\ LogPositions("defaultInvalidSlotResponder") = {}
            /\ Cardinality(LogPositions("invalidSlotResponder")) = 1
            /\ Cardinality(LogPositions("clear")) = 1
            /\ \A c \in LogPositions("clear") :
                 /\ log[c].slot = sn
                 /\ \A r \in LogPositions("invalidSlotResponder") : c < r

\* C8 witness: the custom responder answered for a slot that held a value.
C8_Witness ==
    /\ Returned
    /\ result.dialogAction.type = "ClientInvalidSlot"
    /\ inbound.currentIntent.slots[result.slotEvaluator.slotName] = Str_z
    /\ result.lexEvent.currentIntent.slots[result.slotEvaluator.slotName] = Null

\* the turn's session attributes, as a response carries them
WithSessionAttributes(r) ==
    IF "sessionAttributes" \in DOMAIN lexEvent
    THEN r @@ [sessionAttributes |-> lexEvent.sessionAttributes]
    ELSE r

\* C9: the default rejection response is an ElicitSlot with the turn's intent
\* name, the failing evaluator's slot name and prompt as a PlainText message,
\* the turn's current slot map and session attributes, and no summary list;
\* the default proceed response is a Delegate with the turn's current slots
\* and session attributes.
C9_DefaultResponses ==
    /\ (/\ Returned
        /\ InvalidPositions # {}
        /\ "invalidSlotResponder" \notin DOMAIN config) =>
           LET sn == Registered[Min(InvalidPositions)].slotName
           IN  result = WithSessionAttributes(
                 [dialogAction |->
                    [type         |-> "ElicitSlot",
                     intentName   |-> lexEvent.currentIntent.name,
                     slotToElicit |-> sn,
                     slots        |-> lexEvent.currentIntent.slots,
                     message      |-> [contentType |-> "PlainText",
                                       content     |-> EvaluatorOf(sn).promptMessage]]])
    /\ (/\ Returned
        /\ InvalidPositions = {}
        /\ "allSlotsValidResponder" \notin DOMAIN config) =>
           result = WithSessionAttributes(
             [dialogAction |-> [type  |-> "Delegate",
                                slots |-> lexEvent.currentIntent.slots]])

\* C9 witness: a default re-ask for a turn that has session attributes and a
\* summary list; the response has the former and not the latter.
C9_Witness ==
    /\ ReturnedDefaultReask
    /\ {"sessionAttributes", "recentIntentSummaryView"} \subseteq DOMAIN lexEvent
    /\ "sessionAttributes" \in DOMAIN result
    /\ "recentIntentSummaryView" \notin DOMAIN result

\* the outcome type each factory operation stands for
TypeOf(op) ==
    CASE op = "dialogActionClose"      -> "Close"
      [] op = "dialogActionDelegate"   -> "Delegate"
      [] op = "dialogActionElicitSlot" -> "ElicitSlot"

\* C10: each factory operation returns a result of its own outcome type that
\* includes the session attributes and the summary list unchanged exactly
\* when they are supplied, and omits them otherwise.
C10_FactoryPassesThrough ==
    pc = "made" =>
        /\ result.dialogAction.type = TypeOf(log[1].op)
        /\ \A f \in {"sessionAttributes", "recentIntentSummaryView"} :
             /\ f \in DOMAIN result <=> f \in DOMAIN param
             /\ f \in DOMAIN param => result[f] = param[f]
        /\ DOMAIN result \subseteq
             {"dialogAction", "sessionAttributes", "recentIntentSummaryView"}

\* C10 witness: a Close built with a summary list and without session
\* attributes has the list and no session attributes.
C10_Witness ==
    /\ pc = "made"
    /\ log[1].op = "dialogActionClose"
    /\ "sessionAttributes" \notin DOMAIN param
    /\ "recentIntentSummaryView" \in DOMAIN param
    /\ "sessionAttributes" \notin DOMAIN result
    /\ result.recentIntentSummaryView = param.recentIntentSummaryView

---------------------------------------------------------------------------
(* Claims about route *)

RouteReturned == pc = "returned"

\* the handler the turn's invocation source stands for, <<>> when it stands
\* for neither
ChosenHandler ==
    CASE inbound.invocationSource = "DialogCodeHook"      -> <<eventHandler.dialog>>
      [] inbound.invocationSource = "FulfillmentCodeHook" -> <<eventHandler.fulfill>>
      [] OTHER                                            -> <<>>

\* the Close outcome of a failed turn, with the turn's session attributes
\* when it has any
FailedClose(turn) ==
    LET close == [dialogAction |->
                    [type             |-> "Close",
                     fulfillmentState |-> "Failed",
                     message          |-> [contentType |-> "PlainText",
                                           content     |-> "Unxpected error occurred"]]]
    IN  IF "sessionAttributes" \in DOMAIN turn
        THEN close @@ [sessionAttributes |-> turn.sessionAttributes]
        ELSE close

\* C11: route invokes exactly one handler for a turn of a known invocation
\* source, the dialog handler for 'DialogCodeHook' and the fulfillment
\* handler for 'FulfillmentCodeHook', and returns the result that handler
\* resolves to unchanged.
C11_OneHandlerBySource ==
    (RouteReturned /\ ChosenHandler # <<>>) =>
        /\ log = <<[op |-> IF inbound.invocationSource = "DialogCodeHook"
                           THEN "dialog.handle" ELSE "fulfill.handle"]>>
        /\ ChosenHandler[1].outcome = "resolves" => result = ChosenHandler[1].result

\* C11 witness: a fulfillment turn answered by the fulfillment handler's
\* Close, with a dialog handler that would have resolved to something else.
C11_Witness ==
    /\ RouteReturned
    /\ inbound.invocationSource = "FulfillmentCodeHook"
    /\ eventHandler.fulfill.outcome = "resolves"
    /\ eventHandler.dialog.outcome = "resolves"
    /\ eventHandler.dialog.result # eventHandler.fulfill.result
    /\ result.dialogAction.type = "Close"
    /\ result = eventHandler.fulfill.result

C13_MalformedTurnFails ==
    (RouteReturned /\ ChosenHandler = <<>>) =>
        /\ log = <<>>
        /\ lexEvent = inbound
        /\ result = FailedClose(inbound)

\* C13 witness: the source differs from 'DialogCodeHook' in case only, both
\* handlers would have resolved, and the outcome is Failed.
C13_Witness ==
    /\ RouteReturned
    /\ inbound.invocationSource = "dialogcodehook"
    /\ eventHandler.dialog.outcome = "resolves"
    /\ eventHandler.fulfill.outcome = "resolves"
    /\ result.dialogAction.type = "Close"
    /\ result.dialogAction.fulfillmentState = "Failed"

---------------------------------------------------------------------------
(* Claims about evaluators that throw *)

\* the evaluator of the slot registered at position i throws on the inbound
\* turn
ThrowsAt(i) == Throws(EvaluatorOf(Registered[i].slotName), inbound)

\* the positions at which handle cannot go on to the next slot
StopPositions ==
    {i \in 1..Len(Registered) : ThrowsAt(i) \/ AssessmentAt(i) = INVALID}

\* C14: when the evaluator of a slot handle reaches throws, nothing in
\* handle catches it: the call ends with the exception and without a result,
\* and a call that returns a result met no evaluator that throws.
C14_EvaluatorExceptionPropagates ==
    /\ pc \in {"done", "thrown"} =>
         (pc = "thrown" <=> (StopPositions # {} /\ ThrowsAt(Min(StopPositions))))
    /\ pc = "thrown" =>
         /\ result = Idle
         /\ log[Len(log)] = [op   |-> "throw",
                             slot |-> Registered[Min(StopPositions)].slotName]
    /\ result # Idle => (pc = "done" /\ LogPositions("throw") = {})

\* C14 witness: with a custom rejection responder configured, the first slot
\* passes and the second slot's evaluator throws; there is no result.
C14_Witness ==
    /\ pc = "thrown"
    /\ "invalidSlotResponder" \in DOMAIN config
    /\ Len(Registered) = 2
    /\ Registered[2].kind = "Custom"
    /\ Cardinality(LogPositions("evaluate")) = 1
    /\ result = Idle

---------------------------------------------------------------------------
(* Claims about a conversation *)

\* the exchanges of the conversation that are complete: those before the
\* running call, and the running call once it has returned
Exchanges ==
    session \o (IF Returned THEN <<[turn |-> inbound, result |-> result]>> ELSE <<>>)

\* the positions of the registered slots for which the turn holds no value
\* their evaluator accepts
Unaccepted(turn) ==
    {i \in 1..Len(Registered) :
        turn.currentIntent.slots[Registered[i].slotName]
            \notin AcceptableValues(Registered[i])}

Reasks == {k \in 1..Len(Exchanges) :
             Exchanges[k].result.dialogAction.type = "ElicitSlot"}

\* C15: in a conversation on one engine in which every turn carries the
\* values accepted so far and an acceptable answer for the slot asked last,
\* with a summary that shows the slots of the turn before, every re-ask names
\* the earliest registered slot without an accepted value, no slot is asked
\* twice or after it held an accepted value, a turn with acceptable values
\* for all registered slots is answered by Delegate, and there are at most
\* as many re-asks as registered slots.
C15_ConversationAsksEachSlotOnce ==
    /\ \A k \in 1..Len(Exchanges) :
         LET x  == Exchanges[k]
             un == Unaccepted(x.turn)
         IN  IF un # {}
             THEN /\ x.result.dialogAction.type = "ElicitSlot"
                  /\ x.result.dialogAction.slotToElicit = Registered[Min(un)].slotName
                  /\ \A j \in 1..(k - 1) :
                       LET asked == Exchanges[j].result.dialogAction.slotToElicit
                       IN  /\ asked # x.result.dialogAction.slotToElicit
                           /\ x.turn.currentIntent.slots[asked]
                                \in AcceptableValues(EvaluatorOf(asked))
                           /\ Exchanges[j].turn.currentIntent.slots
                                 [x.result.dialogAction.slotToElicit]
                                \notin AcceptableValues(
                                          EvaluatorOf(x.result.dialogAction.slotToElicit))
             ELSE /\ x.result.dialogAction.type = "Delegate"
                  /\ x.result.dialogAction.slots = x.turn.currentIntent.slots
                  /\ k = Len(Exchanges)
    /\ Cardinality(Reasks) <= Len(Registered)
    /\ Len(session) <= Len(Registered)

\* C15 witness: three slots registered in the order C, A, B were asked in
\* that order, one per turn, and the fourth turn is answered by Delegate.
C15_Witness ==
    /\ Returned
    /\ Len(session) = 3
    /\ <<Registered[1].slotName, Registered[2].slotName, Registered[3].slotName>>
         = <<"C", "A", "B">>
    /\ <<session[1].result.dialogAction.slotToElicit,
         session[2].result.dialogAction.slotToElicit,
         session[3].result.dialogAction.slotToElicit>> = <<"C", "A", "B">>
    /\ result.dialogAction.type = "Delegate"
    /\ \A sn \in SessionSlotNames : result.dialogAction.slots[sn] # Null

---------------------------------------------------------------------------
(* Claims about what handle writes, and about each bundled evaluator *)

C17_NotNullRejectsAbsentAndEmpty ==
    /\ \A i \in LogPositions("evaluate") :
         (/\ log[i].slotEvaluator.kind = "NotNull"
          /\ RecentValueOf(inbound, log[i].slot) = Null) =>
             log[i].slotEvalResult.valid =
                IF inbound.currentIntent.slots[log[i].slot] \in {Null, <<>>}
                THEN INVALID ELSE VALID_SLOT
    /\ (/\ Returned
        /\ NoHooks
        /\ Len(Registered) = 2
        /\ Registered[1].kind = "NotNull"
        /\ Registered[1].slotName = "A"
        /\ Registered[2].slotName = "B"
        /\ inbound.currentIntent.slots = [sn \in SlotNames |->
                                             IF sn = "A" THEN <<>> ELSE Null]
        /\ "recentIntentSummaryView" \notin DOMAIN inbound) =>
           /\ result.dialogAction.type = "ElicitSlot"
           /\ result.dialogAction.slotToElicit = "A"

\* C17 witness: the turn with A = "" and B absent, a non-absence evaluator
\* for A and a set-membership evaluator for B, is answered by ElicitSlot
\* for A.
C17_Witness ==
    /\ Returned
    /\ Len(Registered) = 2
    /\ Registered[1].kind = "NotNull" /\ Registered[1].slotName = "A"
    /\ Registered[2].kind = "SetMembership" /\ Registered[2].slotName = "B"
    /\ inbound.currentIntent.slots["A"] = <<>>
    /\ inbound.currentIntent.slots["B"] = Null
    /\ "recentIntentSummaryView" \notin DOMAIN inbound
    /\ log[1].slotEvalResult.valid = INVALID
    /\ result.dialogAction.type = "ElicitSlot"
    /\ result.dialogAction.slotToElicit = "A"

---------------------------------------------------------------------------
(* Claims about the bundled evaluators called one at a time *)

\* an evaluator of the class kind was called on the value v, and the first
\* summary of the current intent has no value for the slot
AssessedWithoutRecent(kind) ==
    /\ pc = "assessed"
    /\ se.slotEvaluator.kind = kind
    /\ RecentValueOf(lexEvent, se.slotEvaluator.slotName) = Null

CurrentValue == lexEvent.currentIntent.slots[se.slotEvaluator.slotName]

\* the value is, character by character, a member of the set
IdenticalToMember(v, set) ==
    /\ v # Null
    /\ \E member \in set :
          /\ Len(member) = Len(v)
          /\ \A i \in 1..Len(v) : member[i] = v[i]

\* C18: with no recent value for the slot, the set-membership evaluator
\* assesses VALID_SLOT exactly when the current value is identical to a
\* member of the set it was constructed with, and INVALID for every other
\* value, the absent one included.
C18_SetMembershipExact ==
    AssessedWithoutRecent("SetMembership") =>
        se.slotEvalResult.valid =
            IF IdenticalToMember(CurrentValue, se.slotEvaluator.set)
            THEN VALID_SLOT ELSE INVALID

\* C18 witness: the value "X" is INVALID for the set {"x", "xy"}, of whose
\* members it differs in case only.
C18_Witness ==
    /\ AssessedWithoutRecent("SetMembership")
    /\ se.slotEvaluator.set = {Str_x, <<"x", "y">>}
    /\ CurrentValue = <<"X">>
    /\ se.slotEvalResult.valid = INVALID

LeapYear(y) == (y % 4 = 0 /\ y % 100 # 0) \/ y % 400 = 0

DaysInMonth(y, mo) ==
    CASE mo \in {4, 6, 9, 11} -> 30
      [] mo = 2               -> IF LeapYear(y) THEN 29 ELSE 28
      [] OTHER                -> 31

\* the value reads YYYY-MM-DD and names a day of the calendar
IsCalendarDate(v) ==
    /\ v # Null
    /\ Len(v) = 10
    /\ v[5] = "-" /\ v[8] = "-"
    /\ \A i \in {1, 2, 3, 4, 6, 7, 9, 10} : v[i] \in Digits
    /\ LET y  == DigitsToNat(SubSeq(v, 1, 4))
           mo == DigitsToNat(SubSeq(v, 6, 7))
           d  == DigitsToNat(SubSeq(v, 9, 10))
       IN  mo \in 1..12 /\ d \in 1..DaysInMonth(y, mo)

\* C19: with no recent value for the slot, the date evaluator assesses
\* VALID_SLOT exactly when the current value is a YYYY-MM-DD string that
\* names a day of the calendar, and INVALID for every other value: one
\* without '-', the absent one, one whose day the month does not have.
C19_DateValidIffCalendarDate ==
    AssessedWithoutRecent("LexDate") =>
        se.slotEvalResult.valid =
            IF IsCalendarDate(CurrentValue) THEN VALID_SLOT ELSE INVALID

\* the value begins with digits (none, or any number of them), a point and
\* two digits
BeginsWithAmount(v) ==
    /\ v # Null
    /\ \E k \in 0..Len(v) :
          /\ k + 3 <= Len(v)
          /\ \A i \in 1..k : v[i] \in Digits
          /\ v[k + 1] = "."
          /\ v[k + 2] \in Digits
          /\ v[k + 3] \in Digits

\* C20: with no recent value for the slot, the currency evaluator assesses
\* VALID_SLOT exactly when the current value begins with an optional digit
\* 1-9, any number of digits, a point and two digits, whatever follows, and
\* INVALID otherwise: "12.5" is INVALID, "12.50" and "12.50xyz" are
\* VALID_SLOT.
C20_CurrencyPrefixMatch ==
    AssessedWithoutRecent("Currency") =>
        /\ se.slotEvalResult.valid =
              IF BeginsWithAmount(CurrentValue) THEN VALID_SLOT ELSE INVALID
        /\ CurrentValue = Str_badmoney => se.slotEvalResult.valid = INVALID
        /\ CurrentValue \in {Str_money, Str_moneyxyz}
              => se.slotEvalResult.valid = VALID_SLOT

\* C20 witness: "12.50xyz" is assessed VALID_SLOT.
C20_Witness ==
    /\ AssessedWithoutRecent("Currency")
    /\ CurrentValue = Str_moneyxyz
    /\ se.slotEvalResult.valid = VALID_SLOT

---------------------------------------------------------------------------
(* Claims about the summaries, the engine's map and its order list *)

\* the summaries of the inbound turn, none when the list is absent
InboundView ==
    IF "recentIntentSummaryView" \in DOMAIN inbound
    THEN inbound.recentIntentSummaryView
    ELSE <<>>

\* the positions of the summaries whose intent is the current one
MatchingSummaries ==
    {k \in 1..Len(InboundView) :
        InboundView[k].intentName = inbound.currentIntent.name}

\* C21: the prior value an evaluation uses for a slot is the one held by the
\* first summary, front to back, whose intent name is the current intent's;
\* summaries of other intents and later matching ones are ignored; with no
\* list or no match the prior value is absent, the base check gives INVALID
\* and the assessment is never VALID_RECENT_SLOT.
C21_PriorValueFromFirstMatch ==
    \A i \in LogPositions("evaluate") :
        LET sv == log[i].slotEvalResult.slotValue
            va == log[i].slotEvalResult.valid
        IN  /\ MatchingSummaries = {} =>
                  /\ sv.recentValue = Null
                  /\ "elicitedSlotName" \notin DOMAIN sv
                  /\ BaseIsValid(sv) = INVALID
                  /\ va # VALID_RECENT_SLOT
            /\ \A k \in MatchingSummaries :
                  (\A j \in 1..(k - 1) : j \notin MatchingSummaries) =>
                     /\ sv.recentValue = InboundView[k].slots[log[i].slot]
                     /\ sv.elicitedSlotName = InboundView[k].slotToElicit
                     /\ va = VALID_RECENT_SLOT <=> sv.recentValue # Null

\* C21 witness: of two summaries of the current intent the first has no
\* value for the slot and the second has one; the prior value is absent and
\* the slot, absent in the turn as well, is assessed INVALID.
C21_Witness ==
    /\ Returned
    /\ Len(InboundView) = 2
    /\ MatchingSummaries = {1, 2}
    /\ LogPositions("evaluate") = {1}
    /\ InboundView[1].slots[log[1].slot] = Null
    /\ InboundView[2].slots[log[1].slot] = Str_old
    /\ log[1].slotEvalResult.slotValue.recentValue = Null
    /\ log[1].slotEvalResult.valid = INVALID

\* the calls made in the exchanges s, in order
RECURSIVE LogsOf(_)
LogsOf(s) ==
    IF s = <<>> THEN <<>>
    ELSE LogsOf(SubSeq(s, 1, Len(s) - 1)) \o s[Len(s)].log

\* every call the engine has made, in the calls of handle that returned and
\* in the running one
History == LogsOf(session) \o log

\* the slot names for which the configuration lists no evaluator
Unregistered ==
    {sn \in SlotNames : \A i \in 1..Len(Registered) : Registered[i].slotName # sn}

\* C22: a slot name of the order list without an evaluator in the map does
\* not make handle fail: the slot is evaluated by a non-absence evaluator
\* that is made once, with one diagnostic, and stored in the map; every later
\* lookup of the name on that engine, in the same call or a later one, gets
\* the stored evaluator and none is made again.
C22_MissingEvaluatorFallsBackOnce ==
    /\ pc # "thrown"
    /\ \A sn \in Unregistered :
         LET made  == {i \in 1..Len(History) :
                         History[i] = [op |-> "console.log", slot |-> sn]}
             evals == {i \in 1..Len(History) :
                         History[i].op = "evaluate" /\ History[i].slot = sn}
         IN  /\ Cardinality(made) <= 1
             /\ made # {} <=> evals # {}
             /\ evals # {} =>
                   /\ made = {Min(evals) - 1}
                   /\ sn \in DOMAIN slotEvaluatorMap
                   /\ slotEvaluatorMap[sn] = History[Min(evals)].slotEvaluator
             /\ \A i \in evals :
                   /\ History[i].slotEvaluator.kind = "NotNull"
                   /\ History[i].slotEvaluator.slotName = sn
                   /\ History[i].slotEvaluator = History[Min(evals)].slotEvaluator
                   /\ History[i].slotEvalResult.valid =
                         IF History[i].slotEvalResult.slotValue.value = Null
                         THEN INVALID ELSE VALID_SLOT

\* C22 witness: an engine with no evaluator for slot B and B twice in its
\* order list has returned from two calls and is in its third; B was
\* evaluated five times or more and its evaluator was made once.
C22_Witness ==
    /\ Len(session) = 2
    /\ Returned
    /\ "B" \in Unregistered
    /\ Cardinality({i \in 1..Len(History) :
                       History[i].op = "evaluate" /\ History[i].slot = "B"}) >= 5
    /\ Cardinality({i \in 1..Len(History) : History[i].op = "console.log"}) = 1
    /\ result.dialogAction.type = "Delegate"

\* the positions at which the configuration lists an evaluator for slot sn
RegistrationsOf(sn) == {i \in 1..Len(Registered) : Registered[i].slotName = sn}

EvaluationsOf(sn) == {i \in LogPositions("evaluate") : log[i].slot = sn}

\* C23: when the configuration lists two evaluators with the same slot name,
\* the map holds the one registered last and the order list has one entry
\* per registration; whatever handle evaluates for that name is evaluated by
\* the last registered evaluator, never by an earlier one, and a call in
\* which every slot passes evaluates the slot once per entry.
C23_DuplicateLastWins ==
    /\ Len(slotNameArray) = Len(Registered)
    /\ \A i \in 1..Len(Registered) :
          LET sn == Registered[i].slotName
          IN  /\ slotNameArray[i] = sn
              /\ slotEvaluatorMap[sn] = Registered[Max(RegistrationsOf(sn))]
              /\ ReturnedProceed =>
                    Cardinality(EvaluationsOf(sn)) = Cardinality(RegistrationsOf(sn))
    /\ \A i \in LogPositions("evaluate") :
          /\ log[i].slotEvaluator = Registered[Max(RegistrationsOf(log[i].slot))]
          /\ \A j \in RegistrationsOf(log[i].slot) :
                Registered[j] # Registered[Max(RegistrationsOf(log[i].slot))]
                   => log[i].slotEvaluator # Registered[j]

\* C23 witness: a set-membership evaluator and then a non-absence evaluator
\* are registered for slot A, whose value is not in the set; the slot was
\* evaluated twice by the non-absence evaluator and handle proceeds.
C23_Witness ==
    /\ ReturnedProceed
    /\ Len(Registered) = 2
    /\ Registered[1].kind = "SetMembership" /\ Registered[1].slotName = "A"
    /\ Registered[2].kind = "NotNull" /\ Registered[2].slotName = "A"
    /\ inbound.currentIntent.slots["A"] = Str_z
    /\ "recentIntentSummaryView" \notin DOMAIN inbound
    /\ Cardinality(EvaluationsOf("A")) = 2
    /\ \A i \in EvaluationsOf("A") :
          log[i].slotEvaluator = Registered[2] /\ log[i].slotEvalResult.valid = VALID_SLOT

\* the engine is as the constructor built it from its configuration: its
\* order list has no names beyond those of the configuration
BuiltByConstructor == slotNameArray = NamesOf(Registered)

\* the calls of handle that have returned, each with the turn as it was
\* received and the result
CompletedCalls ==
    [k \in 1..Len(session) |-> [turn |-> session[k].turn, result |-> session[k].result]]
    \o (IF Returned THEN <<[turn |-> inbound, result |-> result]>> ELSE <<>>)

\* C24: on an engine built by the constructor with bundled evaluators, no
\* sequence of handle calls changes the order list or the map and no
\* evaluator is made on a miss; the result for a turn is the same whatever
\* calls on other turns came before or after it.
C24_EngineUnchangedByCalls ==
    BuiltByConstructor =>
        /\ slotEvaluatorMap = MapOf(Registered)
        /\ \A i \in 1..Len(History) : History[i].op # "console.log"
        /\ \A j, k \in 1..Len(CompletedCalls) :
              CompletedCalls[j].turn = CompletedCalls[k].turn
                 => CompletedCalls[j].result = CompletedCalls[k].result

\* C24 witness: an engine with two evaluators has answered a turn, then
\* another turn with another result, then the first turn again with the
\* result it gave first, a re-ask.
C24_Witness ==
    /\ BuiltByConstructor
    /\ Len(Registered) = 2
    /\ Len(CompletedCalls) = 3
    /\ CompletedCalls[1].turn = CompletedCalls[3].turn
    /\ CompletedCalls[2].turn # CompletedCalls[1].turn
    /\ CompletedCalls[2].result.dialogAction.type = "Delegate"
    /\ CompletedCalls[1].result.dialogAction.type = "ElicitSlot"
    /\ CompletedCalls[3].result = CompletedCalls[1].result

---------------------------------------------------------------------------
(* Claims about what a response rests on and what handle writes *)

\* the evaluator's own rule accepts the value v: its assessment of v when
\* there is no prior value
OwnRuleAccepts(slotEvaluator, v) ==
    isValid(slotEvaluator,
            [value       |-> v,
             details     |-> [resolutions |-> <<>>, originalValue |-> Null],
             recentValue |-> Null]) = VALID_SLOT

\* C25: with bundled evaluators and no hooks, when handle returns the default
\* Delegate every registered slot has a current value its evaluator's own
\* rule accepts or a non-absent value in the first summary of the current
\* intent; no registered slot lacks both.
C25_DelegateMeansEverySlotBacked ==
    (Returned /\ NoHooks /\ result.dialogAction.type = "Delegate") =>
        \A i \in 1..Len(Registered) :
            LET sn == Registered[i].slotName
            IN  \/ OwnRuleAccepts(EvaluatorOf(sn), inbound.currentIntent.slots[sn])
                \/ RecentValueOf(inbound, sn) # Null

\* C25 witness: a Delegate for a date slot whose current value is a date and
\* which has no prior value, and a currency slot whose current value is no
\* amount and which has a prior value.
C25_Witness ==
    /\ Returned /\ NoHooks
    /\ result.dialogAction.type = "Delegate"
    /\ \E i, j \in 1..Len(Registered) :
          /\ Registered[i].kind = "LexDate"
          /\ inbound.currentIntent.slots[Registered[i].slotName] = Str_date
          /\ RecentValueOf(inbound, Registered[i].slotName) = Null
          /\ Registered[j].kind = "Currency"
          /\ inbound.currentIntent.slots[Registered[j].slotName] = Str_x
          /\ RecentValueOf(inbound, Registered[j].slotName) = Str_old

\* the client's slot evaluation hook writes to the turn's slot map
HookWritesSlots ==
    /\ "slotEvaluationHookBody" \in DOMAIN config
    /\ config.slotEvaluationHookBody.writes = "slot"

\* the evaluations that carried a replacement mapping
WithNewSlots ==
    {i \in LogPositions("evaluate") : "newSlots" \in DOMAIN log[i].slotEvalResult}

\* C26: handle never writes a non-absent value into the turn's slot map.
\* With no hook that writes slots, every slot of the turn holds the value it
\* was received with or, for the one slot handle cleared, absent; a
\* replacement mapping (newSlots) in an evaluation result is applied neither
\* to the turn nor to the slots of the default response, which are the
\* turn's.
C26_NewSlotsNeverApplied ==
    ~HookWritesSlots =>
        /\ \A sn \in SlotNames :
              \/ lexEvent.currentIntent.slots[sn] = inbound.currentIntent.slots[sn]
              \/ /\ lexEvent.currentIntent.slots[sn] = Null
                 /\ \E c \in LogPositions("clear") : log[c].slot = sn
        /\ (Returned /\ result.dialogAction.type \in {"ElicitSlot", "Delegate"}) =>
              /\ result.dialogAction.slots = lexEvent.currentIntent.slots
              /\ \A sn \in SlotNames :
                    result.dialogAction.slots[sn]
                       \in {inbound.currentIntent.slots[sn], Null}

\* C26 witness: the evaluator of slot A passed and the evaluator of slot B
\* rejected, both proposing "y" for both slots; the turn and the ElicitSlot
\* have A as it was received and B absent.
C26_Witness ==
    /\ ReturnedDefaultReask
    /\ ~HookWritesSlots
    /\ WithNewSlots = LogPositions("evaluate")
    /\ Cardinality(WithNewSlots) = 2
    /\ \A i \in WithNewSlots : log[i].slotEvalResult.newSlots = NewSlots
    /\ inbound.currentIntent.slots = [sn \in SlotNames |->
                                         IF sn = "A" THEN Str_x ELSE Str_z]
    /\ result.dialogAction.slotToElicit = "B"
    /\ result.dialogAction.slots = [sn \in SlotNames |->
                                       IF sn = "A" THEN Str_x ELSE Null]
    /\ lexEvent.currentIntent.slots = result.dialogAction.slots

\* the calls of handle on one turn object that have returned, each with the
\* turn as it was given, the result, and the turn as the call left it
RepeatedCalls ==
    session
    \o (IF Returned
        THEN <<[turn |-> inbound, result |-> result, left |-> lexEvent]>>
        ELSE <<>>)

\* C27: with bundled evaluators, no hooks and the default responders, handle
\* called again on the turn as the call before left it returns the same
\* outcome type, the same slot to elicit and an equal slot map, and leaves
\* the turn as it found it.
C27_HandleIdempotent ==
    \A k \in 1..(Len(RepeatedCalls) - 1) :
        LET first  == RepeatedCalls[k]
            second == RepeatedCalls[k + 1]
        IN  /\ second.turn = first.left
            /\ second.result.dialogAction.type = first.result.dialogAction.type
            /\ second.result.dialogAction.type = "ElicitSlot" =>
                  second.result.dialogAction.slotToElicit
                     = first.result.dialogAction.slotToElicit
            /\ second.result.dialogAction.slots = first.result.dialogAction.slots
            /\ second.left = second.turn

\* C27 witness: the first call cleared a slot that held a value and asked
\* for it; the second call, on the turn so changed, asked for the same slot
\* with the same slot map and changed nothing.
C27_Witness ==
    /\ Len(RepeatedCalls) = 2
    /\ RepeatedCalls[1].result.dialogAction.type = "ElicitSlot"
    /\ RepeatedCalls[1].turn.currentIntent.slots
            [RepeatedCalls[1].result.dialogAction.slotToElicit] = Str_x
    /\ RepeatedCalls[1].left # RepeatedCalls[1].turn
    /\ RepeatedCalls[2].result = RepeatedCalls[1].result
    /\ RepeatedCalls[2].left = RepeatedCalls[1].left

---------------------------------------------------------------------------
(* Claims about what has happened when an evaluator throws, and about what *)
(* a hook writes                                                           *)

ResponderOps ==
    {"invalidSlotResponder", "defaultInvalidSlotResponder",
     "allSlotsValidResponder", "defaultAllSlotsValidResponder"}

\* C28: when the evaluator of the k-th slot in the order throws, handle has
\* cleared no slot of the turn, k-1 slots were evaluated and the
\* per-evaluation hook (when configured) was invoked for exactly those, in
\* order, and neither the all-valid hook nor any responder was invoked.
C28_NothingDoneForThrowingSlot ==
    pc = "thrown" =>
        LET k     == Min(StopPositions)
            hooks == LogPositions("slotEvaluationHook")
            evals == LogPositions("evaluate")
        IN  /\ idx = k
            /\ lexEvent = inbound
            /\ LogPositions("clear") = {}
            /\ Cardinality(evals) = k - 1
            /\ Cardinality(hooks) =
                  IF "slotEvaluationHook" \in DOMAIN config THEN k - 1 ELSE 0
            /\ \A i \in 1..(k - 1) :
                  /\ \E e \in evals :
                        /\ log[e].slot = Registered[i].slotName
                        /\ Cardinality({j \in evals : j < e}) = i - 1
                  /\ "slotEvaluationHook" \in DOMAIN config =>
                        \E h \in hooks :
                           /\ log[h].slot = Registered[i].slotName
                           /\ Cardinality({j \in hooks : j < h}) = i - 1
            /\ \A i \in 1..Len(log) :
                  /\ log[i].op # "allSlotsValidHook"
                  /\ log[i].op \notin ResponderOps
            /\ result = Idle

\* C28 witness: every hook and responder is configured, slot A passes and
\* the evaluator of slot B throws from its isValid; the hook was called once,
\* for A, and the turn holds both values still.
C28_Witness ==
    /\ pc = "thrown"
    /\ HookNames \subseteq DOMAIN config
    /\ Len(Registered) = 2
    /\ Registered[1].slotName = "A"
    /\ Registered[2] = ThrowingSlotEvaluator("B", "prompt of Custom", "isValid")
    /\ Cardinality(LogPositions("slotEvaluationHook")) = 1
    /\ \A h \in LogPositions("slotEvaluationHook") : log[h].slot = "A"
    /\ lexEvent.currentIntent.slots = [sn \in SlotNames |-> Str_x]

\* the value the client's hook puts into the slot it is called for
HookValue == config.slotEvaluationHookBody.value

\* C29: the decision to reject a slot rests on the assessment evaluate made
\* before the per-evaluation hook ran.  With a hook that writes a value of
\* its own into the slot it is called for: the assessment is the one of the
\* value the slot held before the hook ran; after the hook the turn holds
\* the hook's value; and when the assessment was INVALID the slot is
\* re-asked all the same and the response and the turn have it absent.
C29_RejectionIgnoresHookWrite ==
    HookWritesSlots =>
        /\ \A e \in LogPositions("evaluate") :
              /\ e < Len(log)
              /\ log[e + 1].op = "slotEvaluationHook"
              /\ log[e + 1].slotEvalResult = log[e].slotEvalResult
              /\ log[e].slotEvalResult.slotValue.value =
                    IF \E d \in LogPositions("evaluate") :
                          d < e /\ log[d].slot = log[e].slot
                    THEN HookValue
                    ELSE inbound.currentIntent.slots[log[e].slot]
        /\ pc = "evaluated" =>
              lexEvent.currentIntent.slots[slotNameArray[idx]] = HookValue
        /\ (Returned /\ LogPositions("evaluate") # {}) =>
              LET last == Max(LogPositions("evaluate"))
                  sn   == log[last].slot
              IN  IF log[last].slotEvalResult.valid = INVALID
                  THEN /\ result.dialogAction.type = "ElicitSlot"
                       /\ result.dialogAction.slotToElicit = sn
                       /\ result.dialogAction.slots[sn] = Null
                       /\ lexEvent.currentIntent.slots[sn] = Null
                       /\ log[last + 2] = [op |-> "clear", slot |-> sn]
                  ELSE /\ result.dialogAction.type = "Delegate"
                       /\ result.dialogAction.slots[sn] = HookValue

\* C29 witness: slot A holds "z", which is no member of its evaluator's set;
\* the hook puts the member "y" into A; A is re-asked and absent in the
\* response.
C29_Witness ==
    /\ ReturnedDefaultReask
    /\ HookWritesSlots
    /\ HookValue \in MemberSet
    /\ Registered[1] =
          SetMembershipSlotEvaluator("A", "prompt of SetMembership", MemberSet)
    /\ inbound.currentIntent.slots["A"] = Str_z
    /\ "recentIntentSummaryView" \notin DOMAIN inbound
    /\ log[1].slotEvalResult.valid = INVALID
    /\ log[2].op = "slotEvaluationHook"
    /\ result.dialogAction.slotToElicit = "A"
    /\ result.dialogAction.slots["A"] = Null

\* what the body of the configured hook does, "nothing" for a hook without
\* writes and for no hook
HookWrites ==
    IF "slotEvaluationHookBody" \in DOMAIN config
    THEN config.slotEvaluationHookBody.writes
    ELSE "nothing"

\* the evaluations for which the order-flowers hook sets the price
PricedEvaluations ==
    {e \in LogPositions("evaluate") :
        /\ log[e].slot = config.slotEvaluationHookBody.slotName
        /\ log[e].slotEvalResult.valid = VALID_SLOT}

\* C30: the default re-ask and proceed responses carry the turn's session
\* attributes as they stand when the response is built: what the
\* per-evaluation hook wrote for any slot evaluated in the call, also for a
\* slot evaluated before the rejected one, is in the response with the value
\* written, next to the attributes the turn was received with.
C30_ResponseCarriesHookAttributes ==
    (Returned /\ result.dialogAction.type \in {"ElicitSlot", "Delegate"}) =>
        /\ "sessionAttributes" \in DOMAIN result
        /\ result.sessionAttributes = lexEvent.sessionAttributes
        /\ LET attrs    == result.sessionAttributes
               received == inbound.sessionAttributes
           IN  CASE HookWrites = "attribute" ->
                      /\ \A e \in LogPositions("evaluate") :
                            /\ log[e].slot \in DOMAIN attrs
                            /\ attrs[log[e].slot] = HookValue
                      /\ DOMAIN attrs =
                            DOMAIN received
                            \cup {log[e].slot : e \in LogPositions("evaluate")}
                      /\ \A key \in DOMAIN received : attrs[key] = received[key]
                 [] HookWrites = "price" ->
                      IF PricedEvaluations = {} THEN attrs = received
                      ELSE attrs =
                             [price |->
                                IF log[Max(PricedEvaluations)].slotEvalResult
                                      .slotValue.value
                                   = config.slotEvaluationHookBody.roses
                                THEN <<"3">> ELSE <<"2">>]
                 [] OTHER -> attrs = received

\* C30 witness: the hook marked slot A, which passed, and slot B, which was
\* rejected; the ElicitSlot for B carries both marks and the price the turn
\* came with.
C30_Witness ==
    /\ ReturnedDefaultReask
    /\ HookWrites = "attribute"
    /\ inbound.sessionAttributes = [price |-> <<"3">>]
    /\ Len(Registered) = 2
    /\ Registered[1].slotName = "A"
    /\ Registered[2].slotName = "B"
    /\ result.dialogAction.slotToElicit = "B"
    /\ result.sessionAttributes =
          [price |-> <<"3">>, A |-> HookValue, B |-> HookValue]

====
